---- MODULE Spec2Model ----
(***************************************************************************)
(* A state-machine model of src/src/helpers/database.ts: the Database      *)
(* facade (open/close, backup/vacuum under the busy flag), the migration   *)
(* engine (createTable, addFields, reorderFields, table pruning) and the   *)
(* generated models (create/save/find/delete).                             *)
(*                                                                         *)
(* Every asynchronous method is cut at its awaits: one action is the code  *)
(* that runs, without yielding, when the awaited engine or file-system     *)
(* call completes.  The outcome of that call (success or an error) is an   *)
(* input the action draws with \E.                                         *)
(***************************************************************************)
EXTENDS Integers, Sequences, FiniteSets, TLC

VARIABLES
    \* ---- options and schema (DatabaseOptions) ----
    tables,          \* this.tables: sequence of [name, cols], declaration order
    reorder,         \* this.reorder
    delete_unused,   \* this.delete_unused
    backup_enabled,  \* this.backup_enabled
    vacuum_enabled,  \* this.vacuum_enabled
    \* ---- facade fields ----
    ready,           \* this.ready
    busy,            \* this.busy
    conns,           \* the connections open() has created, oldest first,
                     \* each "open" | "closed"; this.db is the last one
    backup_timer,    \* this.backup_timer: an interval id or NoTimer
    vacuum_timer,    \* this.vacuum_timer
    intervals,       \* the intervals of the event loop that are still armed
    \* ---- environment ----
    backupFile,      \* does a file exist at backup_filename
    db,              \* the storage file: table name -> [cols, rows]
    errlog,          \* location tags handed to error_callback so far
    faults,          \* engine errors the environment may still inject
    tx,              \* the transaction open on the connection, if any
    \* ---- calls in flight ----
    calls,           \* backup()/vacuum() invocations
    closes,          \* close() invocations
    thr,             \* open() invocations and the continuations they leave
    \* ---- history of the migration (observers, never read by the code) ----
    mig,
    \* ---- generated models ----
    inst,            \* model instances held by the caller
    tasks,           \* save/find/delete invocations in flight
    obs,             \* history of the model operations
    \* ---- HTTP layer ----
    BUSY,            \* config.BUSY
    reqs             \* /prepare and /download requests and where each stands

optVars  == <<tables, reorder, delete_unused, backup_enabled, vacuum_enabled>>
facVars  == <<ready, busy, conns, backup_timer, vacuum_timer, intervals>>
crudVars == <<inst, tasks, obs>>
webVars  == <<BUSY, reqs>>
vars == <<tables, reorder, delete_unused, backup_enabled, vacuum_enabled,
          ready, busy, conns, backup_timer, vacuum_timer, intervals,
          backupFile, db, errlog, faults, tx, calls, closes, thr, mig, inst, tasks, obs,
          BUSY, reqs>>

\* this.db (database.ts 485): the connection the last open() created, which
\* every statement issued from now on goes to; "none" before the first.
handle == IF conns = <<>> THEN "none" ELSE conns[Len(conns)]

\* The connection a statement issued now is bound to: it settles on that
\* connection whatever open() assigns to this.db meanwhile.
Connection == Len(conns)

\* Can connection c execute a statement.
Usable(c) == c \in DOMAIN conns /\ conns[c] = "open"

----------------------------------------------------------------------------
(* Bounds of the model *)

\* backup()/vacuum() invocations in one behaviour
MaxCalls == 3
\* open() invocations in one behaviour
MaxOpens == 2
\* close() invocations in one behaviour
MaxCloses == 1
\* engine errors injected in one behaviour
MaxFaults == 1
\* model instances held by the caller
MaxInst == 2
\* save/find/delete invocations in one behaviour
MaxTasks == 4
\* of which called while another one is in flight
MaxOverlaps == 1
\* assignments to instance fields in one behaviour
MaxEdits == 1
\* key values and other column values the caller uses
MaxKeys == 1
MaxVals == 2
\* values per column the caller passes to create()
MaxNew == 1
MaxHelperCalls == 2

----------------------------------------------------------------------------
(* Values *)

\* A stored or in-memory value is a pair <<tag, n>>; SQL NULL is one of them.
NULL == <<"NULL", 0>>
NoName == ""
NoTimer == <<"none", 0>>

\* ApiResponse.code values used by the facade
Busy429 == 429
NoBackupFile == -4082

\* The outcomes of an engine call: it fails when the engine cannot execute it
\* (can is false), and may fail for an outside reason (I/O error, locked file)
\* while the environment has errors left to inject.
Outcomes(can) == IF ~can THEN {FALSE} ELSE IF faults > 0 THEN BOOLEAN ELSE {TRUE}

Spend(ok, can) == faults' = IF ok \/ ~can THEN faults ELSE faults - 1

----------------------------------------------------------------------------
(* Maintenance: backup() and vacuum() *)

\* The statement of a call that hands none to runQuery, getQuery or allQuery.
NoStmt == <<NoName, NoName>>

\* A backup or a vacuum that has started and has not returned.
InFlight(c) == c.pc # "done"

\* A backup() that ran although the busy flag was set.
BackupInvokeAnyway(by) ==
    [kind |-> "backup", by |-> by,
     pc   |-> "mkdir",
     res  |-> 0,
     set  |-> FALSE, cleared |-> FALSE,
     ovl  |-> \E i \in DOMAIN calls : calls[i].kind = "backup" /\ InFlight(calls[i]),
     fs   |-> TRUE,
     first |-> ~backupFile,
     tag  |-> NoName,
     dst  |-> "none",
     stmt |-> NoStmt,
     conn |-> 0]

\* backup() up to its first await (database.ts 506-508).
BackupInvoke(by) ==
    [kind |-> "backup", by |-> by,
     pc   |-> IF busy THEN "done" ELSE "mkdir",
     res  |-> IF busy THEN Busy429 ELSE 0,
     set  |-> FALSE, cleared |-> FALSE,
     ovl  |-> \E i \in DOMAIN calls : calls[i].kind = "backup" /\ InFlight(calls[i]),
     fs   |-> ~busy,
     first |-> ~backupFile,
     tag  |-> NoName,
     dst  |-> "none",
     stmt |-> NoStmt,
     conn |-> 0]

\* vacuum() up to its await (database.ts 517-521): unless the flag is set,
\* VACUUM is handed to the connection that is this.db at the call.
VacuumInvoke(by) ==
    [kind |-> "vacuum", by |-> by,
     pc   |-> IF busy THEN "done" ELSE "vacuum",
     res  |-> IF busy THEN Busy429 ELSE 0,
     set  |-> ~busy, cleared |-> FALSE,
     ovl  |-> FALSE,
     fs   |-> FALSE,
     first |-> FALSE,
     tag  |-> NoName,
     dst  |-> "none",
     stmt |-> NoStmt,
     conn |-> IF busy THEN 0 ELSE Connection]

BackupCall ==
    /\ Len(calls) < MaxCalls
    /\ calls' = Append(calls, BackupInvoke("direct"))
    /\ UNCHANGED <<faults, optVars, tx, webVars, facVars, backupFile, db, errlog, closes, thr, mig, crudVars>>

\* vacuum() is called by the owner of an opened facade (this.db exists).
VacuumCall ==
    /\ Len(calls) < MaxCalls
    /\ handle # "none"
    /\ calls' = Append(calls, VacuumInvoke("direct"))
    /\ busy' = TRUE
    /\ UNCHANGED <<faults, optVars, tx, webVars, ready, conns, backup_timer, vacuum_timer, intervals,
                   backupFile, db, errlog, closes, thr, mig, crudVars>>

\* A tick of an armed interval (database.ts 498-499).
TimerTick ==
    /\ Len(calls) < MaxCalls
    /\ \E id \in intervals :
         IF id[1] = "backup"
         THEN /\ calls' = Append(calls, BackupInvoke("timer"))
              /\ busy' = busy
         ELSE /\ calls' = Append(calls, VacuumInvoke("timer"))
              /\ busy' = TRUE
    /\ UNCHANGED <<faults, optVars, tx, webVars, ready, conns, backup_timer, vacuum_timer, intervals,
                   backupFile, db, errlog, closes, thr, mig, crudVars>>

\* fsp.mkdir resolved or rejected: both are ignored (database.ts 508).
BackupMkdirDone ==
    /\ \E i \in DOMAIN calls :
         /\ calls[i].kind = "backup" /\ calls[i].pc = "mkdir"
         /\ calls' = [calls EXCEPT ![i].pc = "unlink"]
    /\ UNCHANGED <<faults, optVars, tx, webVars, facVars, backupFile, db, errlog, closes, thr, mig, crudVars>>

\* The copies in flight after the file at the backup path is unlinked: a copy
\* that had opened it goes on writing to a file no name leads to.
Unlinked(cs) ==
    [j \in DOMAIN cs |->
        IF cs[j].pc = "copy" /\ cs[j].dst = "linked" THEN [cs[j] EXCEPT !.dst = "unlinked"]
        ELSE cs[j]]

\* fsp.unlink settled (database.ts 509-511): a rejection returns -4082; on
\* success the busy flag is set and the copy starts.
BackupUnlinkDone ==
    /\ \E i \in DOMAIN calls :
         /\ calls[i].kind = "backup" /\ calls[i].pc = "unlink"
         /\ \E ok \in (IF backupFile THEN BOOLEAN ELSE {FALSE}) :
              IF ok
              THEN /\ backupFile' = FALSE
                   /\ busy' = TRUE
                   /\ calls' = [Unlinked(calls) EXCEPT ![i].pc = "copy", ![i].set = TRUE]
              ELSE /\ backupFile' = backupFile
                   /\ busy' = busy
                   /\ calls' = [calls EXCEPT ![i].pc = "done", ![i].res = NoBackupFile]
    /\ UNCHANGED <<faults, optVars, tx, webVars, ready, conns, backup_timer, vacuum_timer, intervals,
                   db, errlog, closes, thr, mig, crudVars>>

\* fsp.copyFile at work (database.ts 511): the thread pool opens the
\* destination, creating it or truncating the file another copy created,
\* before the copy settles.  No callback of the facade runs.
BackupCopyOpens ==
    /\ \E i \in DOMAIN calls :
         /\ calls[i].kind = "backup" /\ calls[i].pc = "copy" /\ calls[i].dst = "none"
         /\ calls' = [calls EXCEPT ![i].dst = "linked"]
    /\ backupFile' = TRUE
    /\ UNCHANGED <<faults, optVars, tx, webVars, facVars, db, errlog, closes, thr, mig, crudVars>>

\* fsp.copyFile settled (database.ts 511-513): a rejection returns 500 and
\* leaves the busy flag as it is.  A resolved copy leaves a file at the backup
\* path unless another backup unlinked the file it was writing.  A copy that
\* fails after it opened the destination removes the file at the backup path,
\* whichever copy created it; one that fails before (opened tells which, for
\* a copy not seen to open) leaves the path alone.
BackupCopyDone ==
    /\ \E i \in DOMAIN calls :
         /\ calls[i].kind = "backup" /\ calls[i].pc = "copy"
         /\ \E ok \in BOOLEAN, opened \in BOOLEAN :
              IF ok
              THEN /\ opened
                   /\ backupFile' = (backupFile \/ calls[i].dst # "unlinked")
                   /\ busy' = FALSE
                   /\ calls' = [calls EXCEPT ![i].pc = "done", ![i].res = 200,
                                             ![i].cleared = TRUE,
                                             ![i].dst = IF @ = "none" THEN "linked" ELSE @]
              ELSE /\ calls[i].dst # "none" => opened
                   /\ backupFile' = (backupFile /\ ~opened)
                   /\ busy' = busy
                   /\ calls' = [(IF opened THEN Unlinked(calls) ELSE calls)
                                   EXCEPT ![i].pc = "done", ![i].res = 500]
    /\ UNCHANGED <<faults, optVars, tx, webVars, ready, conns, backup_timer, vacuum_timer, intervals,
                   db, errlog, closes, thr, mig, crudVars>>

\* The VACUUM statement completed (database.ts 521-528) on the connection
\* it was handed to; the engine rejects it inside a transaction.
VacuumDone ==
    /\ \E i \in DOMAIN calls :
         /\ calls[i].kind = "vacuum" /\ calls[i].pc = "vacuum"
         /\ \E ok \in Outcomes(Usable(calls[i].conn) /\ ~tx.active) :
              /\ Spend(ok, Usable(calls[i].conn) /\ ~tx.active)
              /\ calls' = [calls EXCEPT ![i].pc = "done",
                                        ![i].res = IF ok THEN 200 ELSE 500,
                                        ![i].cleared = TRUE,
                                        ![i].tag = IF ok THEN NoName ELSE "vacuum"]
              /\ errlog' = IF ok THEN errlog ELSE errlog \cup {"vacuum"}
    /\ busy' = FALSE
    /\ UNCHANGED <<optVars, tx, webVars, ready, conns, backup_timer, vacuum_timer, intervals,
                   backupFile, db, closes, thr, mig, crudVars>>

\* commit() and rollback() up to their await (database.ts 531-533, 540-542).
TxInvoke(kind) ==
    [kind |-> kind, by |-> "direct", pc |-> "run", res |-> 0,
     set |-> FALSE, cleared |-> FALSE, ovl |-> FALSE, fs |-> FALSE, first |-> FALSE,
     tag |-> NoName, dst |-> "none", stmt |-> NoStmt, conn |-> Connection]

\* commit() or rollback() is called by the owner of an opened facade.
TxCall ==
    /\ Len(calls) < MaxCalls
    /\ handle # "none"
    /\ \E kind \in {"commit", "rollback"} : calls' = Append(calls, TxInvoke(kind))
    /\ UNCHANGED <<faults, optVars, tx, webVars, facVars, backupFile, db, errlog, closes, thr, mig, crudVars>>

\* The COMMIT or ROLLBACK statement completed (database.ts 533-536, 542-545).
\* The engine rejects it unless a transaction is open; a ROLLBACK that runs
\* restores the storage of the BEGIN.
TxDone ==
    /\ \E i \in DOMAIN calls :
         /\ calls[i].kind \in {"commit", "rollback"} /\ calls[i].pc = "run"
         /\ LET can == Usable(calls[i].conn) /\ tx.active
            IN  \E ok \in Outcomes(can) :
                 /\ Spend(ok, can)
                 /\ calls' = [calls EXCEPT ![i].pc = "done",
                                           ![i].res = IF ok THEN 200 ELSE 500,
                                           ![i].tag = IF ok THEN NoName ELSE "vacuum"]
                 /\ errlog' = IF ok THEN errlog ELSE errlog \cup {"vacuum"}
                 /\ tx' = IF ok THEN [active |-> FALSE, snap |-> <<>>] ELSE tx
                 /\ db' = IF ok /\ calls[i].kind = "rollback" THEN tx.snap ELSE db
    /\ UNCHANGED <<optVars, webVars, facVars, backupFile, closes, thr, mig, crudVars>>

----------------------------------------------------------------------------
(* The storage file: tables, columns in physical order, rows in rowid order *)

Range(f) == {f[i] : i \in DOMAIN f}

\* The first position of x in the sequence s, or 0 (Array.findIndex + 1).
Index(s, x) ==
    IF \E i \in DOMAIN s : s[i] = x
    THEN CHOOSE i \in DOMAIN s : s[i] = x /\ \A j \in 1..(i - 1) : s[j] # x
    ELSE 0

\* s without its k-th element.
RemoveAt(s, k) == [i \in 1..(Len(s) - 1) |-> IF i < k THEN s[i] ELSE s[i + 1]]

\* The number of times each element occurs in s.
BagOf(s) == [x \in Range(s) |-> Cardinality({i \in DOMAIN s : s[i] = x})]

\* SELECT name FROM sqlite_master WHERE name = t
Exists(t) == t \in DOMAIN db

\* PRAGMA table_info(t): the column names in physical order; no row and no
\* error for a table that does not exist.
TableInfo(t) == IF Exists(t) THEN db[t].cols ELSE <<>>

\* temp_${rand_id} (database.ts 703): the names reorderFields can draw, a
\* fresh one per invocation.
TempPool == <<"temp_1", "temp_2", "temp_3", "temp_4", "temp_5", "temp_6",
              "temp_7", "temp_8", "temp_9">>

\* SELECT name FROM sqlite_master WHERE type='table' (database.ts 587): the
\* tables of the file d in the order of their rows in sqlite_master, which is
\* the order of their creation.
TableNames(d) ==
    [k \in 1..Cardinality(DOMAIN d) |->
        CHOOSE t \in DOMAIN d :
            Cardinality({u \in DOMAIN d : d[u].rowid < d[t].rowid}) = k - 1]

\* The rowid sqlite_master gives the next table: one past the largest.
NextRowid(d) ==
    IF DOMAIN d = {} THEN 1
    ELSE 1 + (CHOOSE n \in {d[u].rowid : u \in DOMAIN d} :
                 \A u \in DOMAIN d : d[u].rowid <= n)

\* CREATE TABLE t (cols)
DbCreate(d, t, cols) ==
    [x \in DOMAIN d \cup {t} |->
        IF x = t THEN [cols |-> cols, rows |-> <<>>, rowid |-> NextRowid(d)] ELSE d[x]]

\* DROP TABLE t
DbDrop(d, t) == [x \in DOMAIN d \ {t} |-> d[x]]

\* ALTER TABLE old RENAME TO new
DbRenameTable(d, old, new) ==
    [x \in (DOMAIN d \ {old}) \cup {new} |-> IF x = new THEN d[old] ELSE d[x]]

\* The statements the owner hands to runQuery, getQuery and allQuery: the
\* transaction statements and the creation and removal of a table the schema
\* does not declare.
RawStatements ==
    { <<"BEGIN", NoName>>, <<"COMMIT", NoName>>, <<"ROLLBACK", NoName>>,
      <<"CREATE TABLE", "junk">>, <<"DROP TABLE", "junk">> }

\* runQuery, getQuery or allQuery is called by the owner of an opened facade
\* (database.ts 836-846): the arguments go to run, get or all of the
\* connection as they are, and the connection is returned.
QueryCall ==
    /\ Len(calls) < MaxCalls
    /\ handle # "none"
    /\ \E fn \in {"runQuery", "getQuery", "allQuery"}, stmt \in RawStatements :
         calls' = Append(calls, [TxInvoke(fn) EXCEPT !.stmt = stmt])
    /\ UNCHANGED <<faults, optVars, tx, webVars, facVars, backupFile, db, errlog, closes, thr, mig, crudVars>>

\* Can the engine execute the raw statement now: BEGIN outside a
\* transaction, COMMIT and ROLLBACK inside one, CREATE TABLE of an absent
\* table, DROP TABLE of a present one.
Executes(stmt) ==
    CASE stmt[1] = "BEGIN" -> ~tx.active
      [] stmt[1] \in {"COMMIT", "ROLLBACK"} -> tx.active
      [] stmt[1] = "CREATE TABLE" -> ~Exists(stmt[2])
      [] stmt[1] = "DROP TABLE" -> Exists(stmt[2])

\* The raw statement completed on the connection it was handed to.  run,
\* get and all execute it alike; an
\* error goes to the callback of the caller, if there is one: no callback of
\* the facade runs and nothing is resolved.
QueryDone ==
    /\ \E i \in DOMAIN calls :
         /\ calls[i].kind \in {"runQuery", "getQuery", "allQuery"} /\ calls[i].pc = "run"
         /\ LET stmt == calls[i].stmt
                can  == Usable(calls[i].conn) /\ Executes(stmt)
            IN  \E ok \in Outcomes(can) :
                 /\ Spend(ok, can)
                 /\ calls' = [calls EXCEPT ![i].pc = "done"]
                 /\ tx' = IF ~ok THEN tx
                          ELSE IF stmt[1] = "BEGIN" THEN [active |-> TRUE, snap |-> db]
                          ELSE IF stmt[1] \in {"COMMIT", "ROLLBACK"}
                               THEN [active |-> FALSE, snap |-> <<>>]
                               ELSE tx
                 /\ db' = IF ~ok THEN db
                          ELSE IF stmt[1] = "ROLLBACK" THEN tx.snap
                          ELSE IF stmt[1] = "CREATE TABLE" THEN DbCreate(db, stmt[2], <<"id">>)
                          ELSE IF stmt[1] = "DROP TABLE" THEN DbDrop(db, stmt[2])
                          ELSE db
    /\ UNCHANGED <<optVars, webVars, facVars, backupFile, errlog, closes, thr, mig, crudVars>>

\* ALTER TABLE .. RENAME COLUMN old TO new
RenameCol(tb, old, new) ==
    [tb EXCEPT !.cols = [i \in DOMAIN tb.cols |-> IF tb.cols[i] = old THEN new ELSE tb.cols[i]]]

\* ALTER TABLE .. ADD COLUMN c: appended last, NULL in every row
AddCol(tb, c) ==
    [tb EXCEPT !.cols = Append(tb.cols, c),
               !.rows = [i \in DOMAIN tb.rows |-> Append(tb.rows[i], NULL)]]

\* A variant of the update that writes no row.
SetNone(tb, c, v) == tb

\* UPDATE .. SET c = v (every row)
SetAll(tb, c, v) ==
    [tb EXCEPT !.rows = [i \in DOMAIN tb.rows |->
                           [tb.rows[i] EXCEPT ![Index(tb.cols, c)] = v]]]

\* ALTER TABLE .. DROP COLUMN c
DropCol(tb, c) ==
    [tb EXCEPT !.cols = RemoveAt(tb.cols, Index(tb.cols, c)),
               !.rows = [i \in DOMAIN tb.rows |-> RemoveAt(tb.rows[i], Index(tb.cols, c))]]

\* The rows of tb as mappings from column name to value.
RowMaps(tb) ==
    [i \in DOMAIN tb.rows |-> [c \in Range(tb.cols) |-> tb.rows[i][Index(tb.cols, c)]]]

----------------------------------------------------------------------------
(* The declared schema *)

Column(name, old, pkey, sensitive, dflt) ==
    [name |-> name, old |-> old, pkey |-> pkey, sensitive |-> sensitive, dflt |-> dflt]

Declared(t) == \E i \in DOMAIN tables : tables[i].name = t

\* this.tables[t]
Schema(t) == tables[CHOOSE i \in DOMAIN tables : tables[i].name = t].cols

ColNames(cols) == [i \in DOMAIN cols |-> cols[i].name]

----------------------------------------------------------------------------
(* open(): the part around the migration (database.ts 481-503) *)

Thread(op) ==
    [op |-> op, main |-> TRUE, pc |-> "o_mkdir", ti |-> 0, fi |-> 0,
     info |-> <<>>, miss |-> <<>>, unus |-> <<>>, res |-> 0]

Settled(th) == th.pc \in {"done", "crashed"}

Opens == {i \in DOMAIN thr : thr[i].main}

\* open() is called; fsp.mkdir is in flight.
OpenCall ==
    /\ Cardinality(Opens) < MaxOpens
    /\ \A i \in DOMAIN thr : Settled(thr[i])
    /\ thr' = Append(thr, Thread(Cardinality(Opens) + 1))
    /\ mig' = [mig EXCEPT !.snap = db]
    /\ UNCHANGED <<faults, optVars, tx, webVars, facVars, backupFile, db, errlog, calls, closes, crudVars>>

\* The thread that starts the migration of table ti + 1, or asks for the
\* table list when every declared table has been visited (database.ts 488-493).
NextTable(th) ==
    IF th.ti < Len(tables)
    THEN [th EXCEPT !.ti = th.ti + 1, !.pc = "ct_exists", !.fi = 0,
                    !.info = <<>>, !.miss = <<>>, !.unus = <<>>]
    ELSE [th EXCEPT !.pc = "o_tables", !.fi = 0,
                    !.info = <<>>, !.miss = <<>>, !.unus = <<>>]

\* fsp.mkdir settled (ignored); new sqlite3.Database(...) is in flight and
\* this.db is the new connection (database.ts 483-485).  The connections
\* before it stay as they are, with the statements handed to them.
OpenMkdirDone ==
    /\ \E i \in DOMAIN thr :
         /\ thr[i].pc = "o_mkdir"
         /\ thr' = [thr EXCEPT ![i].pc = "o_connect"]
    /\ conns' = Append(conns, "open")
    /\ UNCHANGED <<optVars, tx, webVars, ready, busy, backup_timer, vacuum_timer, intervals,
                   backupFile, db, errlog, faults, calls, closes, mig, crudVars>>

\* The callback of new sqlite3.Database (database.ts 485-488), on the
\* connection this open() created: no open() starts while one is running, so
\* it is the last one.
OpenConnectDone ==
    /\ \E i \in DOMAIN thr :
         /\ thr[i].pc = "o_connect"
         /\ \E ok \in Outcomes(TRUE) :
              /\ Spend(ok, TRUE)
              /\ IF ok
                 THEN /\ thr' = [thr EXCEPT ![i] = NextTable(thr[i])]
                      /\ UNCHANGED <<errlog, conns>>
                 ELSE /\ thr' = [thr EXCEPT ![i].pc = "done", ![i].res = 500]
                      /\ errlog' = errlog \cup {"open"}
                      /\ conns' = [conns EXCEPT ![Connection] = "closed"]
    /\ UNCHANGED <<optVars, tx, webVars, ready, busy, backup_timer, vacuum_timer, intervals,
                   backupFile, db, calls, closes, mig, crudVars>>

\* The position, from k on, of the first listed table the prune loop deletes
\* (database.ts 493-495), or 0.
NextPrune(rows, k) ==
    IF \E j \in k..Len(rows) : delete_unused /\ ~Declared(rows[j])
    THEN CHOOSE j \in k..Len(rows) :
           /\ delete_unused /\ ~Declared(rows[j])
           /\ \A m \in k..(j - 1) : ~(delete_unused /\ ~Declared(rows[m]))
    ELSE 0

\* The prune loop from position k of the listed tables: either deleteTable of
\* the next unused table is in flight, or open() finishes (database.ts 497-500).
AfterPrune(th, rows, k) ==
    IF NextPrune(rows, k) # 0
    THEN [th EXCEPT !.pc = "pr_exists", !.info = rows, !.fi = NextPrune(rows, k)]
    ELSE [th EXCEPT !.pc = "done", !.res = 200, !.info = <<>>, !.fi = 0]

\* The history after a statement of open() th.op on table t: kind names the
\* statement, ok its outcome, structural whether it changes the storage.
Logged(m, th, t, kind, ok, structural) ==
    [m EXCEPT
       !.late = IF structural /\ <<th.op, t>> \in m.failedTbl
                THEN @ \cup {<<th.op, t>>} ELSE @,
       !.failed = IF ok THEN @ ELSE @ \cup {th.op},
       !.failedTbl = IF ok THEN @ ELSE @ \cup {<<th.op, t>>},
       !.ddl = IF ok /\ structural THEN @ \cup {th.op} ELSE @]

\* The history after renameField or renameTable returned (back) the result
\* code: src and dst tell whether the source and the target name exist, err
\* whether one of its engine calls failed (database.ts 594-607, 681-694).
RenameResult(m, back, code, src, dst, err) ==
    IF back THEN [m EXCEPT !.rn = [code |-> code, src |-> src, dst |-> dst, err |-> err]]
    ELSE m

\* The facade and the history after thread th became new: when new finished
\* open() with success, ready is set and the enabled timers are armed.
Finishes(th, new) == new.pc = "done" /\ new.res = 200 /\ th.main

FinishFacade(th, new) ==
    IF Finishes(th, new)
    THEN /\ ready' = TRUE
         /\ backup_timer' = IF backup_enabled THEN <<"backup", th.op>> ELSE backup_timer
         /\ vacuum_timer' = IF vacuum_enabled THEN <<"vacuum", th.op>> ELSE vacuum_timer
         /\ intervals' = intervals
                \cup (IF backup_enabled THEN {<<"backup", th.op>>} ELSE {})
                \cup (IF vacuum_enabled THEN {<<"vacuum", th.op>>} ELSE {})
    ELSE UNCHANGED <<ready, backup_timer, vacuum_timer, intervals>>

FinishHistory(th, new, m) ==
    IF Finishes(th, new)
    THEN [m EXCEPT !.readyBy = @ \cup {th.op},
                   !.timersBy = @ \cup (IF backup_enabled \/ vacuum_enabled
                                        THEN {th.op} ELSE {})]
    ELSE m

\* getTables() completed (database.ts 493, 585-592).
OpenGetTablesDone ==
    /\ \E i \in DOMAIN thr :
         /\ thr[i].pc = "o_tables"
         /\ \E ok \in Outcomes(TRUE) :
              LET rows == IF ok THEN TableNames(db) ELSE <<>>
                  new  == AfterPrune(thr[i], rows, 1)
              IN  /\ Spend(ok, TRUE)
                  /\ thr' = [thr EXCEPT ![i] = new]
                  /\ errlog' = IF ok THEN errlog ELSE errlog \cup {"getTables"}
                  /\ FinishFacade(thr[i], new)
                  /\ mig' = FinishHistory(thr[i], new,
                              Logged(mig, thr[i], "sqlite_master", "getTables", ok, FALSE))
    /\ UNCHANGED <<optVars, tx, webVars, busy, conns, backupFile, db, calls, closes, crudVars>>

----------------------------------------------------------------------------
(* The migration: createTable, addFields, reorderFields, the prune loop *)

\* The table a thread migrates and its declared columns.
TName(th) == tables[th.ti].name
TCols(th) == tables[th.ti].cols

\* Names for temp_${rand_id}: Math.random() gives every rebuild its own.
TempOf(th) == TempPool[(th.op - 1) * Len(tables) + th.ti]

\* After createTable returned to the loop of open() (database.ts 489-490).
AfterCreate(th) ==
    IF reorder
    THEN [th EXCEPT !.pc = "rf_info", !.fi = 0, !.info = <<>>,
                    !.miss = <<>>, !.unus = <<>>]
    ELSE NextTable(th)

\* A variant of the rename loop that finds no previous name to rename.
NextOldNone(cols, k) == 0

\* The first declared column at or after position k that names a previous
\* name (database.ts 638-639), or 0.
NextOld(cols, k) ==
    IF \E j \in k..Len(cols) : cols[j].old # NoName
    THEN CHOOSE j \in k..Len(cols) :
           cols[j].old # NoName /\ \A n \in k..(j - 1) : cols[n].old = NoName
    ELSE 0

\* addFields from position k of its rename loop: the next renameField is in
\* flight, or PRAGMA table_info is (database.ts 638-644).
AfRenames(th, k) ==
    IF NextOld(TCols(th), k) # 0
    THEN [th EXCEPT !.pc = "af_rn1", !.fi = NextOld(TCols(th), k)]
    ELSE [th EXCEPT !.pc = "af_info", !.fi = 0]

\* addFields from position k of its drop loop (database.ts 660-667).
AfDrops(th, k) ==
    IF delete_unused /\ k <= Len(th.unus)
    THEN [th EXCEPT !.pc = "af_drop", !.fi = k]
    ELSE [th EXCEPT !.pc = "af_end", !.fi = 0]

\* addFields from position k of its add loop (database.ts 653-658).
AfAdds(th, k) ==
    IF k <= Len(th.miss)
    THEN [th EXCEPT !.pc = "af_add", !.fi = k]
    ELSE AfDrops(th, 1)

\* The threads after thread i went on to cont inside addFields.  resolved:
\* the step called resolve(result) and did not return, so the caller of
\* addFields resumes while the rest of addFields runs on as a detached
\* continuation (database.ts 641, 656, 663); at "af_end" addFields is over.
Resume(i, cont, resolved) ==
    IF thr[i].main
    THEN IF cont.pc = "af_end"
         THEN [thr EXCEPT ![i] = AfterCreate(thr[i])]
         ELSE IF resolved
              THEN Append([thr EXCEPT ![i] = AfterCreate(thr[i])],
                          [cont EXCEPT !.main = FALSE])
              ELSE [thr EXCEPT ![i] = cont]
    ELSE IF cont.pc = "af_end"
         THEN RemoveAt(thr, i)
         ELSE [thr EXCEPT ![i] = cont]

migFrame == <<optVars, tx, webVars, facVars, backupFile, calls, closes, crudVars>>

\* createTable: tableExists completed (database.ts 551-553).
CreateTableExistsDone ==
    \E i \in DOMAIN thr : \E ok \in Outcomes(TRUE) :
        /\ thr[i].pc = "ct_exists"
        /\ thr' = IF ~ok THEN [thr EXCEPT ![i] = AfterCreate(thr[i])]
                  ELSE IF Exists(TName(thr[i]))
                       THEN [thr EXCEPT ![i] = AfRenames(thr[i], 1)]
                       ELSE [thr EXCEPT ![i].pc = "ct_create"]
        /\ Spend(ok, TRUE)
        /\ errlog' = IF ok THEN errlog ELSE errlog \cup {"tableExists"}
        /\ mig' = Logged(mig, thr[i], TName(thr[i]), "tableExists", ok, FALSE)
        /\ UNCHANGED <<migFrame, db>>

\* createTable: CREATE TABLE completed (database.ts 555-559).
CreateTableDone ==
    \E i \in DOMAIN thr :
      /\ thr[i].pc = "ct_create"
      /\ \E ok \in Outcomes(~Exists(TName(thr[i]))) :
        /\ thr' = [thr EXCEPT ![i] = AfterCreate(thr[i])]
        /\ db' = IF ok THEN DbCreate(db, TName(thr[i]), ColNames(TCols(thr[i]))) ELSE db
        /\ Spend(ok, ~Exists(TName(thr[i])))
        /\ errlog' = IF ok THEN errlog ELSE errlog \cup {"createTable"}
        /\ mig' = Logged(mig, thr[i], TName(thr[i]), "create", ok, TRUE)
        /\ UNCHANGED migFrame

\* renameField: fieldExists(old) completed (database.ts 682-683, 640-641).
RenameOldExistsDone ==
    \E i \in DOMAIN thr : \E ok \in Outcomes(TRUE) :
        LET th == thr[i]
            f  == TCols(th)[th.fi]
        IN  /\ th.pc = "af_rn1"
            /\ thr' = IF ok /\ f.old \in Range(TableInfo(TName(th)))
                      THEN [thr EXCEPT ![i].pc = "af_rn2"]
                      ELSE Resume(i, AfRenames(th, th.fi + 1), ~ok)
            /\ Spend(ok, TRUE)
            /\ errlog' = IF ok THEN errlog ELSE errlog \cup {"fieldExists"}
            /\ mig' = RenameResult(Logged(mig, th, TName(th), "fieldExists", ok, FALSE),
                                   ~(ok /\ f.old \in Range(TableInfo(TName(th)))),
                                   IF ok THEN 404 ELSE 500,
                                   f.old \in Range(TableInfo(TName(th))),
                                   f.name \in Range(TableInfo(TName(th))), ~ok)
            /\ UNCHANGED <<migFrame, db>>

\* renameField: fieldExists(new) completed (database.ts 685-686): an engine
\* error here is reported as 409, which addFields does not treat as a failure.
RenameNewExistsDone ==
    \E i \in DOMAIN thr : \E ok \in Outcomes(TRUE) :
        LET th == thr[i]
            f  == TCols(th)[th.fi]
        IN  /\ th.pc = "af_rn2"
            /\ thr' = IF ok /\ f.name \notin Range(TableInfo(TName(th)))
                      THEN [thr EXCEPT ![i].pc = "af_rn3"]
                      ELSE Resume(i, AfRenames(th, th.fi + 1), FALSE)
            /\ Spend(ok, TRUE)
            /\ errlog' = IF ok THEN errlog ELSE errlog \cup {"fieldExists"}
            /\ mig' = RenameResult(Logged(mig, th, TName(th), "fieldExists", ok, FALSE),
                                   ~(ok /\ f.name \notin Range(TableInfo(TName(th)))),
                                   409,
                                   f.old \in Range(TableInfo(TName(th))),
                                   f.name \in Range(TableInfo(TName(th))), ~ok)
            /\ UNCHANGED <<migFrame, db>>

\* renameField: ALTER TABLE .. RENAME COLUMN completed (database.ts 688-693).
RenameFieldDone ==
    \E i \in DOMAIN thr :
    /\ thr[i].pc = "af_rn3"
    /\ LET th == thr[i]
           f  == TCols(th)[th.fi]
           t  == TName(th)
           can == /\ f.old \in Range(TableInfo(t))
                  /\ f.name \notin Range(TableInfo(t))
       IN  \E ok \in Outcomes(can) :
            /\ thr' = Resume(i, AfRenames(th, th.fi + 1), ~ok)
            /\ db' = IF ok THEN [db EXCEPT ![t] = RenameCol(db[t], f.old, f.name)] ELSE db
            /\ Spend(ok, can)
            /\ errlog' = IF ok THEN errlog ELSE errlog \cup {"renameField"}
            /\ mig' = RenameResult(Logged(mig, th, t, "renameField", ok, TRUE), TRUE,
                                   IF ok THEN 200 ELSE 500,
                                   f.old \in Range(TableInfo(t)),
                                   f.name \in Range(TableInfo(t)), ~ok)
            /\ UNCHANGED migFrame

\* A variant of the filter that finds no declared column missing.
MissingFieldsNone(fields, info) == <<>>

\* The declared columns that table_info does not list (database.ts 650).
MissingFields(fields, info) ==
    LET Missing(f) == f.name \notin Range(info) IN SelectSeq(fields, Missing)

\* The listed columns that are not declared (database.ts 651).
UnusedFields(fields, info) ==
    LET Unused(n) == n \notin Range(ColNames(fields)) IN SelectSeq(info, Unused)

\* addFields: PRAGMA table_info completed (database.ts 644-653).
AddFieldsInfoDone ==
    \E i \in DOMAIN thr : \E ok \in Outcomes(TRUE) :
        LET th == thr[i]
            info == TableInfo(TName(th))
            got == [th EXCEPT !.miss = MissingFields(TCols(th), info),
                              !.unus = UnusedFields(TCols(th), info)]
        IN  /\ th.pc = "af_info"
            /\ thr' = IF ok THEN Resume(i, AfAdds(got, 1), FALSE)
                      ELSE Resume(i, [th EXCEPT !.pc = "af_end"], TRUE)
            /\ Spend(ok, TRUE)
            /\ errlog' = IF ok THEN errlog ELSE errlog \cup {"addFields"}
            /\ mig' = Logged(mig, th, TName(th), "table_info", ok, FALSE)
            /\ UNCHANGED <<migFrame, db>>

\* addField: ALTER TABLE .. ADD COLUMN completed (database.ts 619-626, 655-656).
AddFieldDone ==
    \E i \in DOMAIN thr :
    /\ thr[i].pc = "af_add"
    /\ LET th == thr[i]
           f  == th.miss[th.fi]
           t  == TName(th)
           can == Exists(t) /\ f.name \notin Range(TableInfo(t))
       IN  \E ok \in Outcomes(can) :
            /\ thr' = IF ok /\ f.dflt # NULL
                      THEN [thr EXCEPT ![i].pc = "af_dflt"]
                      ELSE Resume(i, AfAdds(th, th.fi + 1), ~ok)
            /\ db' = IF ok THEN [db EXCEPT ![t] = AddCol(db[t], f.name)] ELSE db
            /\ Spend(ok, can)
            /\ errlog' = IF ok THEN errlog ELSE errlog \cup {"addField"}
            /\ mig' = Logged(mig, th, t, "addField", ok, TRUE)
            /\ UNCHANGED migFrame

\* addField: UPDATE .. SET field = default completed (database.ts 628-633).
AddFieldDefaultDone ==
    \E i \in DOMAIN thr :
    /\ thr[i].pc = "af_dflt"
    /\ LET th == thr[i]
           f  == th.miss[th.fi]
           t  == TName(th)
           can == f.name \in Range(TableInfo(t))
       IN  \E ok \in Outcomes(can) :
            /\ thr' = Resume(i, AfAdds(th, th.fi + 1), ~ok)
            /\ db' = IF ok THEN [db EXCEPT ![t] = SetAll(db[t], f.name, f.dflt)] ELSE db
            /\ Spend(ok, can)
            /\ errlog' = IF ok THEN errlog ELSE errlog \cup {"addField"}
            /\ mig' = Logged(mig, th, t, "setDefault", ok, TRUE)
            /\ UNCHANGED migFrame

\* deleteField: ALTER TABLE .. DROP COLUMN completed (database.ts 662-663,
\* 672-679).  The engine refuses to drop the only column of a table.
DeleteFieldDone ==
    \E i \in DOMAIN thr :
    /\ thr[i].pc = "af_drop"
    /\ LET th == thr[i]
           c  == th.unus[th.fi]
           t  == TName(th)
           can == c \in Range(TableInfo(t)) /\ Len(TableInfo(t)) > 1
       IN  \E ok \in Outcomes(can) :
            /\ thr' = Resume(i, AfDrops(th, th.fi + 1), ~ok)
            /\ db' = IF ok THEN [db EXCEPT ![t] = DropCol(db[t], c)] ELSE db
            /\ Spend(ok, can)
            /\ errlog' = IF ok THEN errlog ELSE errlog \cup {"deleteField"}
            /\ mig' = Logged(mig, th, t, "deleteField", ok, TRUE)
            /\ UNCHANGED migFrame

\* A variant of the test that compares the whole column list.
ReorderMatchExact(fields, info) == info = ColNames(fields)

\* A variant of the test that never finds the order right.
ReorderMatchNever(fields, info) == FALSE

\* fields.every((e, i) => table_fields[i].name == e.name) (database.ts 700).
ReorderMatch(fields, info) ==
    /\ Len(info) >= Len(fields)
    /\ \A k \in 1..Len(fields) : info[k] = fields[k].name

\* The same test reads table_fields[i].name past the end of table_fields: a
\* TypeError in the callback, and the promise of reorderFields never settles.
ReorderThrows(fields, info) ==
    /\ Len(info) < Len(fields)
    /\ \A k \in 1..Len(info) : info[k] = fields[k].name

\* db_fields (database.ts 705-708): the declared columns in declared order,
\* NoName (null) for one that is not listed, then the listed leftovers.
DbFields(fields, info) ==
    [k \in 1..Len(fields) |->
        IF fields[k].name \in Range(info) THEN fields[k].name ELSE NoName]
    \o UnusedFields(fields, info)

\* A variant of the copy that selects every column in physical order.
CopyRowsStar(tb, names) == tb.rows

\* INSERT INTO temp SELECT names FROM tb (database.ts 716): the rows of tb,
\* each projected on names, in that order.
CopyRows(tb, names) ==
    [r \in DOMAIN tb.rows |->
        [k \in DOMAIN names |-> tb.rows[r][Index(tb.cols, names[k])]]]

\* reorderFields: PRAGMA table_info completed (database.ts 698-710).
ReorderInfoDone ==
    \E i \in DOMAIN thr : \E ok \in Outcomes(TRUE) :
        LET th == thr[i]
            t  == TName(th)
            info == TableInfo(t)
        IN  /\ th.pc = "rf_info"
            /\ thr' = IF ~ok \/ ReorderMatch(TCols(th), info)
                      THEN [thr EXCEPT ![i] = NextTable(th)]
                      ELSE IF ReorderThrows(TCols(th), info)
                           THEN [thr EXCEPT ![i].pc = "crashed"]
                           ELSE [thr EXCEPT ![i].pc = "rf_tdel",
                                            ![i].info = DbFields(TCols(th), info)]
            /\ Spend(ok, TRUE)
            /\ errlog' = IF ok THEN errlog ELSE errlog \cup {"reorderFields"}
            /\ mig' = LET m == Logged(mig, th, t, "table_info", ok, FALSE)
                      IN  IF ok /\ Exists(t)
                          THEN [m EXCEPT !.before = [cols |-> db[t].cols,
                                                     rows |-> BagOf(RowMaps(db[t]))]]
                          ELSE m
            /\ UNCHANGED <<migFrame, db>>

\* reorderFields: deleteTable(temp) returned (database.ts 710, 563-567).  No
\* table has the fresh name, so this is tableExists answering, or failing.
ReorderTempDeleteDone ==
    \E i \in DOMAIN thr : \E ok \in Outcomes(TRUE) :
        /\ thr[i].pc = "rf_tdel"
        /\ thr' = [thr EXCEPT ![i].pc = "rf_texists"]
        /\ Spend(ok, TRUE)
        /\ errlog' = IF ok THEN errlog ELSE errlog \cup {"tableExists"}
        /\ mig' = Logged(mig, thr[i], TName(thr[i]), "tableExists", ok, FALSE)
        /\ UNCHANGED <<migFrame, db>>

\* reorderFields: createTable(temp): tableExists completed (database.ts 712,
\* 551-555).  Mapping a null of db_fields to its name throws: the promise of
\* createTable never settles.
ReorderTempExistsDone ==
    \E i \in DOMAIN thr : \E ok \in Outcomes(TRUE) :
        /\ thr[i].pc = "rf_texists"
        /\ thr' = IF ~ok THEN [thr EXCEPT ![i] = NextTable(thr[i])]
                  ELSE IF NoName \in Range(thr[i].info)
                       THEN [thr EXCEPT ![i].pc = "crashed"]
                       ELSE [thr EXCEPT ![i].pc = "rf_tcreate"]
        /\ Spend(ok, TRUE)
        /\ errlog' = IF ok THEN errlog ELSE errlog \cup {"tableExists"}
        /\ mig' = Logged(mig, thr[i], TName(thr[i]), "tableExists", ok, FALSE)
        /\ UNCHANGED <<migFrame, db>>

\* reorderFields: CREATE TABLE temp completed (database.ts 556-559, 712-713).
ReorderTempCreateDone ==
    \E i \in DOMAIN thr : \E ok \in Outcomes(TRUE) :
        /\ thr[i].pc = "rf_tcreate"
        /\ thr' = IF ok THEN [thr EXCEPT ![i].pc = "rf_copy"]
                  ELSE [thr EXCEPT ![i] = NextTable(thr[i])]
        /\ db' = IF ok THEN DbCreate(db, TempOf(thr[i]), thr[i].info) ELSE db
        /\ Spend(ok, TRUE)
        /\ errlog' = IF ok THEN errlog ELSE errlog \cup {"createTable"}
        /\ mig' = Logged(mig, thr[i], TName(thr[i]), "createTemp", ok, TRUE)
        /\ UNCHANGED migFrame

\* reorderFields: INSERT INTO temp SELECT .. completed (database.ts 715-722).
ReorderCopyDone ==
    \E i \in DOMAIN thr :
    /\ thr[i].pc = "rf_copy"
    /\ LET th == thr[i]
           t  == TName(th)
           can == Range(th.info) \subseteq Range(TableInfo(t))
       IN  \E ok \in Outcomes(can) :
            /\ thr' = IF ok THEN [thr EXCEPT ![i].pc = "rf_dexists"]
                      ELSE [thr EXCEPT ![i] = NextTable(th)]
            /\ db' = IF ok
                     THEN [db EXCEPT ![TempOf(th)].rows = @ \o CopyRows(db[t], th.info)]
                     ELSE db
            /\ Spend(ok, can)
            /\ errlog' = IF ok THEN errlog ELSE errlog \cup {"reorderFields"}
            /\ mig' = Logged(mig, th, t, "copyRows", ok, TRUE)
            /\ UNCHANGED migFrame

\* reorderFields: deleteTable(table): tableExists completed (database.ts 724,
\* 565-567).
ReorderDropExistsDone ==
    \E i \in DOMAIN thr : \E ok \in Outcomes(TRUE) :
        /\ thr[i].pc = "rf_dexists"
        /\ thr' = IF ok /\ Exists(TName(thr[i]))
                  THEN [thr EXCEPT ![i].pc = "rf_drop"]
                  ELSE [thr EXCEPT ![i] = NextTable(thr[i])]
        /\ Spend(ok, TRUE)
        /\ errlog' = IF ok THEN errlog ELSE errlog \cup {"tableExists"}
        /\ mig' = Logged(mig, thr[i], TName(thr[i]), "tableExists", ok, FALSE)
        /\ UNCHANGED <<migFrame, db>>

\* reorderFields: DROP TABLE table completed (database.ts 569-572, 724-725).
ReorderDropDone ==
    \E i \in DOMAIN thr :
    /\ thr[i].pc = "rf_drop"
    /\ \E ok \in Outcomes(Exists(TName(thr[i]))) :
        /\ thr' = IF ok THEN [thr EXCEPT ![i].pc = "rf_rexists1"]
                  ELSE [thr EXCEPT ![i] = NextTable(thr[i])]
        /\ db' = IF ok THEN DbDrop(db, TName(thr[i])) ELSE db
        /\ Spend(ok, Exists(TName(thr[i])))
        /\ errlog' = IF ok THEN errlog ELSE errlog \cup {"deleteTable"}
        /\ mig' = Logged(mig, thr[i], TName(thr[i]), "dropTable", ok, TRUE)
        /\ UNCHANGED migFrame

\* reorderFields: renameTable: tableExists(temp) completed (database.ts 727,
\* 595-596).
ReorderRenameOldExistsDone ==
    \E i \in DOMAIN thr : \E ok \in Outcomes(TRUE) :
        /\ thr[i].pc = "rf_rexists1"
        /\ thr' = IF ok /\ Exists(TempOf(thr[i]))
                  THEN [thr EXCEPT ![i].pc = "rf_rexists2"]
                  ELSE [thr EXCEPT ![i] = NextTable(thr[i])]
        /\ Spend(ok, TRUE)
        /\ errlog' = IF ok THEN errlog ELSE errlog \cup {"tableExists"}
        /\ mig' = RenameResult(Logged(mig, thr[i], TName(thr[i]), "tableExists", ok, FALSE),
                               ~(ok /\ Exists(TempOf(thr[i]))),
                               IF ok THEN 404 ELSE 500,
                               Exists(TempOf(thr[i])), Exists(TName(thr[i])), ~ok)
        /\ UNCHANGED <<migFrame, db>>

\* reorderFields: renameTable: tableExists(table) completed (database.ts
\* 598-599).
ReorderRenameNewExistsDone ==
    \E i \in DOMAIN thr : \E ok \in Outcomes(TRUE) :
        /\ thr[i].pc = "rf_rexists2"
        /\ thr' = IF ok /\ ~Exists(TName(thr[i]))
                  THEN [thr EXCEPT ![i].pc = "rf_rename"]
                  ELSE [thr EXCEPT ![i] = NextTable(thr[i])]
        /\ Spend(ok, TRUE)
        /\ errlog' = IF ok THEN errlog ELSE errlog \cup {"tableExists"}
        /\ mig' = RenameResult(Logged(mig, thr[i], TName(thr[i]), "tableExists", ok, FALSE),
                               ~(ok /\ ~Exists(TName(thr[i]))),
                               409,
                               Exists(TempOf(thr[i])), Exists(TName(thr[i])), ~ok)
        /\ UNCHANGED <<migFrame, db>>

\* reorderFields: ALTER TABLE temp RENAME TO table completed (database.ts
\* 601-606, 727-730).
ReorderRenameDone ==
    \E i \in DOMAIN thr :
    /\ thr[i].pc = "rf_rename"
    /\ LET th == thr[i]
           t  == TName(th)
           can == Exists(TempOf(th)) /\ ~Exists(t)
       IN  \E ok \in Outcomes(can) :
            /\ thr' = [thr EXCEPT ![i] = NextTable(th)]
            /\ db' = IF ok THEN DbRenameTable(db, TempOf(th), t) ELSE db
            /\ Spend(ok, can)
            /\ errlog' = IF ok THEN errlog ELSE errlog \cup {"renameTable"}
            /\ mig' = LET m == RenameResult(Logged(mig, th, t, "renameTable", ok, TRUE), TRUE,
                                           IF ok THEN 200 ELSE 500,
                                           Exists(TempOf(th)), Exists(t), ~ok)
                      IN  IF ok
                          THEN [m EXCEPT !.rebuilt =
                                  <<[before |-> mig.before,
                                     after  |-> [cols |-> db[TempOf(th)].cols,
                                                 rows |-> BagOf(RowMaps(db[TempOf(th)]))],
                                     declared |-> ColNames(TCols(th)),
                                     clean  |-> th.op \notin mig.failed]>>]
                          ELSE m
            /\ UNCHANGED migFrame

\* The prune loop: tableExists of deleteTable completed (database.ts 494,
\* 565-567).
PruneExistsDone ==
    \E i \in DOMAIN thr : \E ok \in Outcomes(TRUE) :
        LET th == thr[i]
            t  == th.info[th.fi]
            new == IF ok /\ Exists(t)
                   THEN [th EXCEPT !.pc = "pr_drop"]
                   ELSE AfterPrune(th, th.info, th.fi + 1)
        IN  /\ th.pc = "pr_exists"
            /\ thr' = [thr EXCEPT ![i] = new]
            /\ Spend(ok, TRUE)
            /\ errlog' = IF ok THEN errlog ELSE errlog \cup {"tableExists"}
            /\ FinishFacade(th, new)
            /\ mig' = FinishHistory(th, new, Logged(mig, th, t, "tableExists", ok, FALSE))
            /\ UNCHANGED <<optVars, tx, webVars, busy, conns, backupFile, db, calls, closes, crudVars>>

\* The prune loop: DROP TABLE completed (database.ts 494, 569-572).
PruneDropDone ==
    \E i \in DOMAIN thr :
    /\ thr[i].pc = "pr_drop"
    /\ LET th == thr[i]
           t  == th.info[th.fi]
           new == AfterPrune(th, th.info, th.fi + 1)
       IN  \E ok \in Outcomes(Exists(t)) :
            /\ thr' = [thr EXCEPT ![i] = new]
            /\ db' = IF ok THEN DbDrop(db, t) ELSE db
            /\ Spend(ok, Exists(t))
            /\ errlog' = IF ok THEN errlog ELSE errlog \cup {"deleteTable"}
            /\ FinishFacade(th, new)
            /\ mig' = FinishHistory(th, new, Logged(mig, th, t, "pruneTable", ok, TRUE))
            /\ UNCHANGED <<optVars, tx, webVars, busy, conns, backupFile, calls, closes, crudVars>>

----------------------------------------------------------------------------
(* close() (database.ts 468-479) *)

\* close() is called: both timers are cleared and backup() runs up to its
\* first await.
CloseCall ==
    /\ Len(closes) < MaxCloses
    /\ intervals' = intervals \ {backup_timer, vacuum_timer}
    /\ calls' = Append(calls, BackupInvoke("close"))
    /\ closes' = Append(closes, [pc |-> "backup", call |-> Len(calls) + 1, res |-> 0,
                                  conn |-> 0])
    /\ UNCHANGED <<faults, optVars, tx, webVars, ready, busy, conns, backup_timer, vacuum_timer,
                   backupFile, db, errlog, thr, mig, crudVars>>

\* A close() that did not wait for its backup.
CloseBackupDoneEarly ==
    /\ \E k \in DOMAIN closes :
         /\ closes[k].pc = "backup"
         /\ closes' = [closes EXCEPT ![k].pc = IF handle = "none" THEN "done" ELSE "closing",
                                     ![k].res = IF handle = "none" THEN -1 ELSE 0,
                                     ![k].conn = Connection]
    /\ UNCHANGED <<faults, optVars, tx, webVars, facVars, backupFile, db, errlog, calls, thr, mig, crudVars>>

\* The awaited backup returned: close is called on the connection that is
\* this.db at that moment (database.ts 474).  Without a handle
\* the call throws and close() rejects.
CloseBackupDone ==
    /\ \E k \in DOMAIN closes :
         /\ closes[k].pc = "backup"
         /\ calls[closes[k].call].pc = "done"
         /\ closes' = [closes EXCEPT ![k].pc = IF handle = "none" THEN "done" ELSE "closing",
                                     ![k].res = IF handle = "none" THEN -1 ELSE 0,
                                     ![k].conn = Connection]
    /\ UNCHANGED <<faults, optVars, tx, webVars, facVars, backupFile, db, errlog, calls, thr, mig, crudVars>>

\* The callback of close (database.ts 474-477): the connection close was
\* called on is released, whichever connection this.db is by now.  Closing
\* the connection rolls back a transaction that is still open.
CloseDone ==
    /\ \E k \in DOMAIN closes :
         /\ closes[k].pc = "closing"
         /\ \E ok \in Outcomes(Usable(closes[k].conn)) :
              /\ Spend(ok, Usable(closes[k].conn))
              /\ closes' = [closes EXCEPT ![k].pc = "done",
                                          ![k].res = IF ok THEN 200 ELSE 500]
              /\ conns' = IF ok THEN [conns EXCEPT ![closes[k].conn] = "closed"] ELSE conns
              /\ errlog' = IF ok THEN errlog ELSE errlog \cup {"close"}
              /\ db' = IF ok /\ tx.active THEN tx.snap ELSE db
              /\ tx' = IF ok THEN [active |-> FALSE, snap |-> <<>>] ELSE tx
    /\ UNCHANGED <<optVars, webVars, ready, busy, backup_timer, vacuum_timer, intervals,
                   backupFile, calls, thr, mig, crudVars>>

----------------------------------------------------------------------------
(* The generated models (database.ts 212-466) and the row operations they
   call (database.ts 744-821) *)

\* schema.find(col => col.pkey): the position of the primary-key column.
PKey(cols) == CHOOSE i \in DOMAIN cols : cols[i].pkey /\ \A j \in 1..(i - 1) : ~cols[j].pkey

\* primaryKeyColumn is defined (database.ts 217): the schema has a key column.
HasKey(t) == \E i \in DOMAIN Schema(t) : Schema(t)[i].pkey

\* primaryKeyColumn of the model of table t (database.ts 217): undefined
\* without a key column, which the SQL text spells out as a name.
KeyName(t) == IF HasKey(t) THEN Schema(t)[PKey(Schema(t))].name ELSE "undefined"

\* Identity operations that refused nothing.
ThrowsNever(t) == FALSE

\* if (!primaryKeyColumn) throw .. (database.ts 228, 278, 305, 316, 329, 379,
\* 392, 427): the identity operations of the model of table t refuse to run.
Throws(t) == ~HasKey(t)

\* The values a caller uses for a column: MaxKeys keys, MaxVals others.
ValuesOf(col) == {<<col.name, n>> : n \in 1..(IF col.pkey THEN MaxKeys ELSE MaxVals)}

KeysOf(cols) ==
    IF \E i \in DOMAIN cols : cols[i].pkey THEN ValuesOf(cols[PKey(cols)]) ELSE {NULL}

\* The argument lists of create(): one value per declared column, the first
\* MaxNew values of each.
Arguments(cols) ==
    {a \in [DOMAIN cols -> UNION {ValuesOf(cols[c]) : c \in DOMAIN cols}] :
        \A c \in DOMAIN cols : a[c] \in ValuesOf(cols[c]) /\ a[c][2] <= MaxNew}

\* The positions of the rows of table t whose column col holds v.
Matching(d, t, col, v) ==
    {r \in DOMAIN d[t].rows : d[t].rows[r][Index(d[t].cols, col)] = v}

First(S) == CHOOSE r \in S : \A q \in S : r <= q

\* INSERT INTO t VALUES(?, .., ?): the values go to the physical columns by
\* position (database.ts 746).
DbInsert(d, t, args) == [d EXCEPT ![t].rows = Append(@, args)]

\* A variant of the update without its WHERE clause.
DbUpdateAll(d, t, col, v, scol, sv) ==
    [d EXCEPT ![t].rows =
        [r \in DOMAIN @ |-> [@[r] EXCEPT ![Index(d[t].cols, col)] = v]]]

\* UPDATE t SET col = v WHERE scol = sv (database.ts 765).
DbUpdate(d, t, col, v, scol, sv) ==
    [d EXCEPT ![t].rows =
        [r \in DOMAIN @ |-> IF r \in Matching(d, t, scol, sv)
                            THEN [@[r] EXCEPT ![Index(d[t].cols, col)] = v]
                            ELSE @[r]]]

\* DELETE FROM t WHERE rowid IN (SELECT rowid FROM t WHERE col = v LIMIT 1)
\* (database.ts 809-816).
DbDeleteFirst(d, t, col, v) ==
    IF Matching(d, t, col, v) = {} THEN d
    ELSE [d EXCEPT ![t].rows = RemoveAt(@, First(Matching(d, t, col, v)))]

\* new BaseModel(...args) (database.ts 263-269): the fields and their
\* _original_ copies, by position in the schema.
NewInstance(t, args, src) ==
    [tbl |-> t, vals |-> args, orig |-> args, src |-> src, born |-> args]

\* fromObject(row) (database.ts 367-370) of the row at position r: the
\* declared columns read by name; undefined for a name the row lacks.
FromRow(t, r) ==
    [c \in DOMAIN Schema(t) |->
        IF Schema(t)[c].name \in Range(db[t].cols)
        THEN db[t].rows[r][Index(db[t].cols, Schema(t)[c].name)]
        ELSE NULL]

\* toObject that kept every column.
ToObjectAll(in, sensitive) ==
    [n \in {Schema(in.tbl)[c].name : c \in DOMAIN Schema(in.tbl)} |->
        in.vals[CHOOSE c \in DOMAIN Schema(in.tbl) : Schema(in.tbl)[c].name = n]]

\* toObject(sensitive) (database.ts 355-360).
ToObject(in, sensitive) ==
    LET cols == Schema(in.tbl)
        kept == {c \in DOMAIN cols : sensitive \/ ~cols[c].sensitive}
    IN  [n \in {cols[c].name : c \in kept} |->
            in.vals[CHOOSE c \in kept : cols[c].name = n]]

\* A variant of the filter that keeps every column but the key.
ChangedAll(in) ==
    {c \in DOMAIN Schema(in.tbl) : ~Schema(in.tbl)[c].pkey}

\* The columns save() updates (database.ts 282).
Changed(in) ==
    {c \in DOMAIN Schema(in.tbl) : ~Schema(in.tbl)[c].pkey /\ in.vals[c] # in.orig[c]}

\* The sequence of the elements of the set of positions S, ascending.
RECURSIVE Ascending(_)
Ascending(S) == IF S = {} THEN <<>> ELSE <<First(S)>> \o Ascending(S \ {First(S)})

\* A model operation in flight, or one that returned.  alone tells that no
\* other operation was in flight between its call and its return; pre and
\* post are the storage at the call and at the return.
Task(op, i, t, key) ==
    [op |-> op, i |-> i, tbl |-> t, key |-> key, pc |-> "call",
     dest |-> NoName, col |-> NoName, from |-> 0, del |-> FALSE,
     flag |-> NoName, thrown |-> FALSE, copied |-> <<>>, removed |-> <<>>,
     upd |-> {}, args |-> <<>>, todo |-> <<>>, all |-> TRUE,
     res |-> 0, status |-> FALSE, changes |-> 0, found |-> 0, got |-> <<>>,
     err |-> FALSE,
     alone |-> tasks = <<>>,
     existed |-> IF op = "none" \/ ~HasKey(t) THEN FALSE
                 ELSE Matching(db, t, KeyName(t), key) # {},
     created |-> FALSE, loaded |-> FALSE, edits |-> 0,
     ins |-> FALSE, wrote |-> {}, pre |-> db, post |-> <<>>]

NoTask == [Task("none", 0, NoName, NULL) EXCEPT !.pc = "done", !.alone = FALSE, !.pre = <<>>]

\* The operations in flight after tk was called.
Called(tk) == Append([t \in DOMAIN tasks |-> [tasks[t] EXCEPT !.alone = FALSE]], tk)

\* The history after the operation done returned: the last two returns.
Returned(done) == [obs EXCEPT !.prev = obs.last, !.last = done]

Loading == Len(SelectSeq(tasks, LAMBDA tk : tk.op = "find"))

crudFrame == <<optVars, tx, webVars, facVars, backupFile, calls, closes, thr, mig>>

\* Model.create(...args) (database.ts 410-413): an instance in memory.  It
\* touches nothing an operation in flight reads, so the model lets the caller
\* create between operations only.
Create ==
    \E i \in DOMAIN tables : \E args \in Arguments(tables[i].cols) :
        /\ tasks = <<>>
        /\ Len(inst) < MaxInst
        /\ inst' = Append(inst, NewInstance(tables[i].name, args, "create"))
        /\ UNCHANGED <<crudFrame, db, errlog, faults, tasks, obs>>

\* The caller holds instance i: the instance convert() builds is handed out
\* by its last statement only (database.ts 347), and not at all when convert
\* returns null (341).
Held(i) == inst[i].src # "convert"

\* The caller assigns a field of an instance, between operations.
Assign ==
    \E i \in DOMAIN inst : \E c \in DOMAIN Schema(inst[i].tbl) :
      \E v \in ValuesOf(Schema(inst[i].tbl)[c]) :
        /\ obs.edits < MaxEdits
        /\ Held(i)
        /\ ~Schema(inst[i].tbl)[c].pkey
        /\ v # inst[i].vals[c]
        /\ tasks = <<>>
        /\ inst' = [inst EXCEPT ![i].vals[c] = v]
        /\ obs' = [obs EXCEPT !.edits = @ + 1]
        /\ UNCHANGED <<crudFrame, db, errlog, faults, tasks>>

\* An operation may be called: the bounds on calls leave room.
MayCall == obs.calls < MaxTasks /\ (tasks = <<>> \/ obs.overlaps < MaxOverlaps)

Counted == [obs EXCEPT !.calls = @ + 1,
                       !.overlaps = IF tasks = <<>> THEN @ ELSE @ + 1]

\* convert() that deleted the original whatever its save returned.
SaveReturnsUnchecked(t, done) ==
    IF done.op = "convert"
    THEN /\ tasks' = [tasks EXCEPT ![t] = [done EXCEPT !.pc = "drop"]]
         /\ obs' = obs
    ELSE /\ tasks' = RemoveAt(tasks, t)
         /\ obs' = Returned(done)

\* save() of task t returns the result done: to its caller, or into convert()
\* (database.ts 337-343), which goes on to delete the original when the
\* result has a true status and returns null otherwise.
SaveReturns(t, done) ==
    IF done.op = "convert" /\ done.status
    THEN /\ tasks' = [tasks EXCEPT ![t] = [done EXCEPT !.pc = "drop"]]
         /\ obs' = obs
    ELSE /\ tasks' = RemoveAt(tasks, t)
         /\ obs' = Returned(done)

\* instance.save() is called (database.ts 277-283): the key and the changed
\* columns are read, valueExists is in flight.
SaveCall ==
    \E i \in DOMAIN inst :
        /\ MayCall
        /\ Held(i)
        /\ ~Throws(inst[i].tbl)
        /\ tasks' = Called([Task("save", i, inst[i].tbl, inst[i].vals[PKey(Schema(inst[i].tbl))])
                              EXCEPT !.pc = "exists",
                                     !.upd = Changed(inst[i]),
                                     !.edits = obs.edits,
                                     !.created = (inst[i].src = "create" /\ inst[i].vals = inst[i].born),
                                     !.loaded = (inst[i].src = "find")])
        /\ obs' = Counted
        /\ UNCHANGED <<crudFrame, db, errlog, faults, inst>>

\* save(): valueExists completed (database.ts 283-293, 772-779).  Without a
\* row, or with an engine error, addValues is issued with the fields as they
\* are now; otherwise one setValue per changed column is issued, and with no
\* changed column save() returns.
SaveExistsDone ==
    \E t \in DOMAIN tasks :
      /\ tasks[t].pc = "exists"
      /\ \E ok \in Outcomes(TRUE) :
          LET tk == tasks[t]
              in == inst[tk.i]
              status == ok /\ Matching(db, tk.tbl, KeyName(tk.tbl), tk.key) # {}
              seen == [tk EXCEPT !.err = ~ok, !.args = in.vals]
              done == [seen EXCEPT !.pc = "done", !.res = 200, !.status = TRUE, !.post = db]
          IN  /\ Spend(ok, TRUE)
              /\ errlog' = IF ok THEN errlog ELSE errlog \cup {"valueExists"}
              /\ IF ~status
                 THEN /\ tasks' = [tasks EXCEPT ![t] = [seen EXCEPT !.pc = "insert"]]
                      /\ obs' = obs
                 ELSE IF tk.upd = {}
                      THEN SaveReturns(t, done)
                      ELSE /\ tasks' = [tasks EXCEPT ![t] =
                                          [seen EXCEPT !.pc = "update", !.todo = Ascending(tk.upd)]]
                           /\ obs' = obs
              /\ UNCHANGED <<crudFrame, db, inst>>

\* The _original_ copies of the columns in upd after a successful save
\* (database.ts 288, 295).
Refreshed(in, upd) ==
    [in EXCEPT !.orig = [c \in DOMAIN @ |-> IF c \in upd THEN in.vals[c] ELSE @[c]]]

\* save(): addValues completed (database.ts 286-290, 744-751).
SaveInsertDone ==
    \E t \in DOMAIN tasks :
      /\ tasks[t].pc = "insert"
      /\ LET tk == tasks[t]
             can == Exists(tk.tbl) /\ Len(tk.args) = Len(db[tk.tbl].cols)
         IN  \E ok \in Outcomes(can) :
              /\ Spend(ok, can)
              /\ errlog' = IF ok THEN errlog ELSE errlog \cup {"addValues"}
              /\ db' = IF ok THEN DbInsert(db, tk.tbl, tk.args) ELSE db
              /\ inst' = IF ok THEN [inst EXCEPT ![tk.i] = Refreshed(@, tk.upd)] ELSE inst
              /\ SaveReturns(t, [tk EXCEPT !.pc = "done", !.res = IF ok THEN 200 ELSE 500,
                                            !.status = ok, !.err = (@ \/ ~ok), !.ins = ok,
                                            !.post = db'])
              /\ UNCHANGED crudFrame

\* save(): one of its setValue calls completed (database.ts 293-296, 762-770);
\* with the last one Promise.all settles and save() returns.
SaveUpdateDone ==
    \E t \in DOMAIN tasks :
      /\ tasks[t].pc = "update"
      /\ \E ok \in Outcomes(TRUE), k \in DOMAIN tasks[t].todo :
          LET tk == tasks[t]
              c  == tk.todo[k]
              changes == Cardinality(Matching(db, tk.tbl, KeyName(tk.tbl), tk.key))
              all == tk.all /\ ok /\ changes > 0
              last == Len(tk.todo) = 1
              step == [tk EXCEPT !.todo = RemoveAt(@, k), !.all = all, !.err = (@ \/ ~ok),
                                 !.wrote = IF ok /\ changes > 0
                                           THEN @ \cup {Schema(tk.tbl)[c].name} ELSE @]
          IN  /\ Spend(ok, TRUE)
              /\ errlog' = IF ok THEN errlog ELSE errlog \cup {"setValue"}
              /\ db' = IF ok
                       THEN DbUpdate(db, tk.tbl, Schema(tk.tbl)[c].name, tk.args[c],
                                     KeyName(tk.tbl), tk.key)
                       ELSE db
              /\ inst' = IF last /\ all
                         THEN [inst EXCEPT ![tk.i] = Refreshed(@, tk.upd)] ELSE inst
              /\ IF last
                 THEN SaveReturns(t, [step EXCEPT !.pc = "done",
                                                  !.res = IF all THEN 200 ELSE 500,
                                                  !.status = all, !.post = db'])
                 ELSE /\ tasks' = [tasks EXCEPT ![t] = step]
                      /\ obs' = obs
              /\ UNCHANGED crudFrame

\* Model.find(pkey) is called (database.ts 378-380): getRow is in flight.
FindCall ==
    \E i \in DOMAIN tables : \E k \in KeysOf(tables[i].cols) :
        /\ MayCall
        /\ ~Throws(tables[i].name)
        /\ Len(inst) + Loading < MaxInst
        /\ tasks' = Called([Task("find", 0, tables[i].name, k) EXCEPT !.pc = "get"])
        /\ obs' = Counted
        /\ UNCHANGED <<crudFrame, db, errlog, faults, inst>>

\* find(): getRow completed (database.ts 380-382, 781-807): SELECT * .. LIMIT 1
\* gives the first matching row, which fromObject turns into an instance.
FindDone ==
    \E t \in DOMAIN tasks :
      /\ tasks[t].pc = "get"
      /\ \E ok \in Outcomes(TRUE) :
          LET tk == tasks[t]
              hit == Matching(db, tk.tbl, KeyName(tk.tbl), tk.key)
              row == ok /\ hit # {}
              new == NewInstance(tk.tbl, FromRow(tk.tbl, First(hit)), "find")
          IN  /\ Spend(ok, TRUE)
              /\ errlog' = IF ok THEN errlog ELSE errlog \cup {"getRows"}
              /\ inst' = IF row THEN Append(inst, new) ELSE inst
              /\ tasks' = RemoveAt(tasks, t)
              /\ obs' = Returned([tk EXCEPT !.pc = "done", !.res = IF ok THEN 200 ELSE 500,
                                            !.status = row, !.err = ~ok,
                                            !.found = IF row THEN Len(inst) + 1 ELSE 0,
                                            !.got = IF row THEN ToObject(new, TRUE) ELSE <<>>,
                                            !.post = db])
              /\ UNCHANGED <<crudFrame, db>>

\* Model.delete(pkey) is called (database.ts 391-394): deleteRow is in flight.
DeleteCall ==
    \E i \in DOMAIN tables : \E k \in KeysOf(tables[i].cols) :
        /\ MayCall
        /\ ~Throws(tables[i].name)
        /\ tasks' = Called([Task("delete", 0, tables[i].name, k) EXCEPT !.pc = "del"])
        /\ obs' = Counted
        /\ UNCHANGED <<crudFrame, db, errlog, faults, inst>>

\* instance.delete() is called (database.ts 304-307).
InstanceDeleteCall ==
    \E i \in DOMAIN inst :
        /\ MayCall
        /\ Held(i)
        /\ ~Throws(inst[i].tbl)
        /\ tasks' = Called([Task("delete", 0, inst[i].tbl, inst[i].vals[PKey(Schema(inst[i].tbl))])
                              EXCEPT !.pc = "del"])
        /\ obs' = Counted
        /\ UNCHANGED <<crudFrame, db, errlog, faults, inst>>

\* deleteRow completed (database.ts 809-821).
DeleteDone ==
    \E t \in DOMAIN tasks :
      /\ tasks[t].pc = "del"
      /\ \E ok \in Outcomes(TRUE) :
          LET tk == tasks[t]
              changes == IF Matching(db, tk.tbl, KeyName(tk.tbl), tk.key) = {} THEN 0 ELSE 1
          IN  /\ Spend(ok, TRUE)
              /\ errlog' = IF ok THEN errlog ELSE errlog \cup {"deleteRows"}
              /\ db' = IF ok THEN DbDeleteFirst(db, tk.tbl, KeyName(tk.tbl), tk.key) ELSE db
              /\ tasks' = RemoveAt(tasks, t)
              /\ obs' = Returned([tk EXCEPT !.pc = "done", !.res = IF ok THEN 200 ELSE 500,
                                            !.status = ok /\ changes > 0, !.err = ~ok,
                                            !.post = db'])
              /\ UNCHANGED <<crudFrame, inst>>

\* INSERT INTO to SELECT * FROM from WHERE col = v (database.ts 826): the
\* matching rows are appended in their order, their values by position.
DbCopyRows(d, from, to, col, v) ==
    [d EXCEPT ![to].rows =
        @ \o SelectSeq(d[from].rows, LAMBDA row : row[Index(d[from].cols, col)] = v)]

\* A deletion that removed nothing.
DbKeepRows(d, t, col, v) == d

\* DELETE FROM t WHERE rowid IN (SELECT rowid FROM t WHERE col = v), without
\* LIMIT (database.ts 816 with limit undefined).
DbDeleteRows(d, t, col, v) ==
    [d EXCEPT ![t].rows = SelectSeq(@, LAMBDA row : row[Index(d[t].cols, col)] # v)]

\* The tables a move or a conversion of a row of table t may name: those of
\* the generated models, the model of t itself included (database.ts 315-318,
\* 328-332 test nothing about to_model).
Destinations(t) == {tables[j].name : j \in DOMAIN tables}

\* instance.move(to_model) is called (database.ts 315-318): moveRows is in
\* flight with the key column and the instance's key.  args keeps the stored
\* row as the source model reads it at the call.
MoveCall ==
    \E i \in DOMAIN inst : \E to \in Destinations(inst[i].tbl) :
        /\ MayCall
        /\ Held(i)
        /\ ~Throws(inst[i].tbl)
        /\ tasks' = Called(
             LET tk  == Task("move", i, inst[i].tbl, inst[i].vals[PKey(Schema(inst[i].tbl))])
                 hit == Matching(db, tk.tbl, KeyName(tk.tbl), tk.key)
             IN  [tk EXCEPT !.pc = "copy", !.dest = to, !.col = KeyName(tk.tbl),
                            !.args = IF hit = {} THEN <<>> ELSE FromRow(tk.tbl, First(hit))])
        /\ obs' = Counted
        /\ UNCHANGED <<crudFrame, db, errlog, faults, inst>>

\* moveRows: the INSERT .. SELECT completed (database.ts 824-832).  SELECT *
\* needs as many columns as the destination has; with an error moveRows
\* returns and the source is left alone, otherwise deleteRows is issued.
MoveInsertDone ==
    \E t \in DOMAIN tasks :
      /\ tasks[t].pc = "copy"
      /\ LET tk == tasks[t]
             can == /\ Exists(tk.tbl) /\ Exists(tk.dest)
                    /\ tk.col \in Range(db[tk.tbl].cols)
                    /\ Len(db[tk.tbl].cols) = Len(db[tk.dest].cols)
         IN  \E ok \in Outcomes(can) :
              /\ Spend(ok, can)
              /\ errlog' = IF ok THEN errlog ELSE errlog \cup {"moveRows"}
              /\ db' = IF ok THEN DbCopyRows(db, tk.tbl, tk.dest, tk.col, tk.key) ELSE db
              /\ IF ok
                 THEN /\ tasks' = [tasks EXCEPT ![t] =
                                     [tk EXCEPT !.pc = "clear", !.ins = TRUE,
                                                !.copied = SelectSeq(db[tk.tbl].rows,
                                                    LAMBDA row : row[Index(db[tk.tbl].cols, tk.col)] = tk.key)]]
                      /\ obs' = obs
                 ELSE /\ tasks' = RemoveAt(tasks, t)
                      /\ obs' = Returned([tk EXCEPT !.pc = "done", !.res = 500, !.err = TRUE,
                                                    !.post = db])
              /\ UNCHANGED <<crudFrame, inst>>

\* moveRows: its deleteRows completed (database.ts 833, 813-821); the result
\* of the deletion is the result of the move.
MoveDeleteDone ==
    \E t \in DOMAIN tasks :
      /\ tasks[t].pc = "clear"
      /\ LET tk == tasks[t]
             can == Exists(tk.tbl) /\ tk.col \in Range(db[tk.tbl].cols)
             changes == IF can THEN Cardinality(Matching(db, tk.tbl, tk.col, tk.key)) ELSE 0
         IN  \E ok \in Outcomes(can) :
              /\ Spend(ok, can)
              /\ errlog' = IF ok THEN errlog ELSE errlog \cup {"deleteRows"}
              /\ db' = IF ok THEN DbDeleteRows(db, tk.tbl, tk.col, tk.key) ELSE db
              /\ tasks' = RemoveAt(tasks, t)
              /\ obs' = Returned([tk EXCEPT !.pc = "done", !.res = IF ok THEN 200 ELSE 500,
                                            !.status = ok /\ changes > 0, !.err = ~ok,
                                            !.removed = IF ok
                                                        THEN SelectSeq(db[tk.tbl].rows,
                                                               LAMBDA row : row[Index(db[tk.tbl].cols, tk.col)] = tk.key)
                                                        ELSE <<>>,
                                            !.post = db'])
              /\ UNCHANGED <<crudFrame, inst>>

\* to_model.fromObject(data) (database.ts 367-370): the declared columns of
\* table t read by name from the object data; undefined for a missing name.
FromObject(t, data) ==
    [c \in DOMAIN Schema(t) |->
        IF Schema(t)[c].name \in DOMAIN data THEN data[Schema(t)[c].name] ELSE NULL]

\* instance.convert(to_model) is called (database.ts 328-337): the new
\* instance is built from toObject() and its save() is in flight, with no
\* changed column.  The task runs on the destination; from is the original.
ConvertCall ==
    \E i \in DOMAIN inst : \E to \in Destinations(inst[i].tbl) :
        LET new == NewInstance(to, FromObject(to, ToObject(inst[i], TRUE)), "convert")
        IN  /\ MayCall
            /\ Held(i)
            /\ ~Throws(inst[i].tbl) /\ ~Throws(to)
            /\ Len(inst) + Loading < MaxInst
            /\ inst' = Append(inst, new)
            /\ tasks' = Called([Task("convert", Len(inst) + 1, to, new.vals[PKey(Schema(to))])
                                  EXCEPT !.pc = "exists", !.from = i, !.args = inst[i].vals])
            /\ obs' = Counted
            /\ UNCHANGED <<crudFrame, db, errlog, faults>>

\* convert(): the deleteRow of this.delete() completed (database.ts 343-346,
\* 304-307); its result is dropped and the new instance is returned.
ConvertDeleteDone ==
    \E t \in DOMAIN tasks :
      /\ tasks[t].pc = "drop"
      /\ \E ok \in Outcomes(TRUE) :
          LET tk  == tasks[t]
              src == inst[tk.from]
              key == src.vals[PKey(Schema(src.tbl))]
          IN  /\ Spend(ok, TRUE)
              /\ errlog' = IF ok THEN errlog ELSE errlog \cup {"deleteRows"}
              /\ db' = IF ok THEN DbDeleteFirst(db, src.tbl, KeyName(src.tbl), key) ELSE db
              /\ tasks' = RemoveAt(tasks, t)
              /\ obs' = Returned([tk EXCEPT !.pc = "done", !.found = tk.i, !.del = TRUE,
                                            !.err = (@ \/ ~ok), !.post = db'])
              /\ inst' = [inst EXCEPT ![tk.i].src = "converted"]
              /\ UNCHANGED crudFrame

\* The calls of the per-column helpers, of toObject and of the refused
\* operations: the first MaxHelperCalls calls of a behaviour, each made when
\* the one before has returned.
MayCallHelper == tasks = <<>> /\ obs.calls < MaxHelperCalls

\* The operations that name a row by the primary key: the static ones and
\* those of an instance.
StaticIdentity == {"find", "delete", "setValue", "column.setValue"}
InstanceIdentity == {"save", "instance.delete", "move", "convert"}

\* The history after the synchronous operation done was called and returned.
CalledAndReturned(done) == [Counted EXCEPT !.prev = obs.last, !.last = done]

\* An identity operation of a model without a key column is called: the
\* throw is the first statement of each of them (database.ts 228, 278, 305,
\* 316, 329, 379, 392, 427), so nothing is issued and the call is over.
Refuse ==
    \E i \in DOMAIN tables :
      \E op \in StaticIdentity \cup
                (IF \E k \in DOMAIN inst : inst[k].tbl = tables[i].name
                 THEN InstanceIdentity ELSE {}) :
        /\ MayCallHelper
        /\ Throws(tables[i].name)
        /\ obs' = CalledAndReturned([Task(op, 0, tables[i].name, NULL)
                                       EXCEPT !.pc = "done", !.thrown = TRUE, !.post = db])
        /\ UNCHANGED <<crudFrame, db, errlog, faults, inst, tasks>>

\* The caller serializes an instance: toObject(true), toObject(false) or
\* toObject(), whose parameter defaults to true (database.ts 355-360).
Show ==
    \E i \in DOMAIN inst : \E flag \in {"true", "false", "default"} :
        /\ MayCallHelper
        /\ obs' = CalledAndReturned(
                    [Task("toObject", i, inst[i].tbl, NULL)
                       EXCEPT !.pc = "done", !.flag = flag, !.args = inst[i].vals,
                              !.got = ToObject(inst[i], flag # "false"), !.post = db])
        /\ UNCHANGED <<crudFrame, db, errlog, faults, inst, tasks>>

\* Model.setValue(field, value, pkey) (database.ts 425-429),
\* Model.columns.c.setValue(pkey, value) (database.ts 227-230) or
\* Model.columns.c.updateValues(value, where_column, where_value)
\* (database.ts 238-240) is called: the engine setValue is in flight.  The
\* first two name the row by the key and refuse without one.
SetCall ==
    \E i \in DOMAIN tables : \E op \in {"setValue", "column.setValue", "updateValues"} :
      \E c \in DOMAIN tables[i].cols : \E w \in DOMAIN tables[i].cols :
        \E v \in ValuesOf(tables[i].cols[c]) :
          \E k \in ValuesOf(tables[i].cols[w]) \cup KeysOf(tables[i].cols) :
            LET t == tables[i].name
                byKey == op # "updateValues"
            IN  /\ MayCallHelper
                /\ ~tables[i].cols[c].pkey /\ v[2] = MaxVals /\ k[2] <= MaxKeys
                /\ byKey => ~Throws(t) /\ w = 1 /\ k \in KeysOf(tables[i].cols)
                /\ ~byKey => k \in ValuesOf(tables[i].cols[w])
                /\ tasks' = Called([Task(op, 0, t, k) EXCEPT
                                      !.pc = "set",
                                      !.col = IF byKey THEN KeyName(t)
                                              ELSE tables[i].cols[w].name,
                                      !.upd = {c}, !.args = <<v>>])
                /\ obs' = Counted
                /\ UNCHANGED <<crudFrame, db, errlog, faults, inst>>

\* The engine setValue completed (database.ts 762-770).
SetDone ==
    \E t \in DOMAIN tasks :
      /\ tasks[t].pc = "set"
      /\ \E ok \in Outcomes(TRUE) :
          LET tk == tasks[t]
              name == Schema(tk.tbl)[CHOOSE c \in tk.upd : TRUE].name
              changes == Cardinality(Matching(db, tk.tbl, tk.col, tk.key))
          IN  /\ Spend(ok, TRUE)
              /\ errlog' = IF ok THEN errlog ELSE errlog \cup {"setValue"}
              /\ db' = IF ok THEN DbUpdate(db, tk.tbl, name, tk.args[1], tk.col, tk.key) ELSE db
              /\ tasks' = RemoveAt(tasks, t)
              /\ obs' = Returned([tk EXCEPT !.pc = "done", !.res = IF ok THEN 200 ELSE 500,
                                            !.status = ok /\ changes > 0, !.err = ~ok,
                                            !.changes = IF ok THEN changes ELSE 0,
                                            !.post = db'])
              /\ UNCHANGED <<crudFrame, inst>>

\* Model.columns.c.move(to_model, value) is called (database.ts 235-237):
\* moveRows is in flight with that column; no key is asked for.
ColumnMoveCall ==
    \E i \in DOMAIN tables : \E c \in DOMAIN tables[i].cols :
      \E v \in ValuesOf(tables[i].cols[c]) : \E to \in Destinations(tables[i].name) :
        /\ MayCallHelper
        /\ v[2] <= MaxKeys
        /\ tasks' = Called([Task("column.move", 0, tables[i].name, v) EXCEPT
                              !.pc = "copy", !.dest = to, !.col = tables[i].cols[c].name])
        /\ obs' = Counted
        /\ UNCHANGED <<crudFrame, db, errlog, faults, inst>>

\* Model.columns.c.fetch(value) is called (database.ts 231-234): getRows is
\* in flight.
FetchCall ==
    \E i \in DOMAIN tables : \E c \in DOMAIN tables[i].cols :
      \E v \in ValuesOf(tables[i].cols[c]) :
        /\ MayCallHelper
        /\ v[2] <= MaxKeys
        /\ tasks' = Called([Task("fetch", 0, tables[i].name, v) EXCEPT
                              !.pc = "scan", !.col = tables[i].cols[c].name])
        /\ obs' = Counted
        /\ UNCHANGED <<crudFrame, db, errlog, faults, inst>>

\* fetch(): getRows completed (database.ts 232-233, 796-807); every matching
\* row becomes an instance, returned to the caller.
FetchDone ==
    \E t \in DOMAIN tasks :
      /\ tasks[t].pc = "scan"
      /\ \E ok \in Outcomes(TRUE) :
          LET tk == tasks[t]
              hit == IF ok THEN Ascending(Matching(db, tk.tbl, tk.col, tk.key)) ELSE <<>>
          IN  /\ Spend(ok, TRUE)
              /\ errlog' = IF ok THEN errlog ELSE errlog \cup {"getRows"}
              /\ tasks' = RemoveAt(tasks, t)
              /\ obs' = Returned([tk EXCEPT !.pc = "done", !.res = IF ok THEN 200 ELSE 500,
                                            !.status = hit # <<>>, !.err = ~ok,
                                            !.got = [r \in DOMAIN hit |-> FromRow(tk.tbl, hit[r])],
                                            !.post = db])
              /\ UNCHANGED <<crudFrame, db, inst>>

----------------------------------------------------------------------------
(* The busy flag: backup() and vacuum() calls, direct and timer-driven, on an
   opened facade *)

MigInit0 ==
    [failed |-> {}, failedTbl |-> {}, late |-> {}, ddl |-> {}, readyBy |-> {},
     timersBy |-> {}, snap |-> <<>>, before |-> <<>>, rebuilt |-> <<>>,
     rn |-> [code |-> 0, src |-> FALSE, dst |-> FALSE, err |-> FALSE]]

\* The connection after it is opened: autocommit, no transaction.
NoTx == tx = [active |-> FALSE, snap |-> <<>>]

\* No request has reached the server (config.ts 8: BUSY starts false).
NoWeb ==
    /\ BUSY = FALSE
    /\ reqs = <<>>

NoCrud ==
    /\ inst = <<>>
    /\ tasks = <<>>
    /\ obs = <<>>

\* The facade after a successful open(): the handle exists, ready is set and
\* the enabled intervals are armed (database.ts 497-500).
InitMaint ==
    /\ tables = <<>>
    /\ reorder = FALSE
    /\ delete_unused = FALSE
    /\ backup_enabled \in BOOLEAN
    /\ vacuum_enabled \in BOOLEAN
    /\ ready = TRUE
    /\ busy = FALSE
    /\ conns = <<"open">>
    /\ backup_timer = (IF backup_enabled THEN <<"backup", 1>> ELSE NoTimer)
    /\ vacuum_timer = (IF vacuum_enabled THEN <<"vacuum", 1>> ELSE NoTimer)
    /\ intervals = {backup_timer, vacuum_timer} \ {NoTimer}
    /\ backupFile \in BOOLEAN
    /\ db = <<>>
    /\ errlog = {}
    /\ faults = MaxFaults
    /\ calls = <<>>
    /\ closes = <<>>
    /\ thr = <<>>
    /\ mig = MigInit0
    /\ NoWeb
    /\ NoTx
    /\ NoCrud

NextMaint ==
    \/ BackupCall
    \/ VacuumCall
    \/ TimerTick
    \/ BackupMkdirDone
    \/ BackupUnlinkDone
    \/ BackupCopyOpens
    \/ BackupCopyDone
    \/ VacuumDone

SpecMaint == InitMaint /\ [][NextMaint]_vars

\* The statements the owner runs on an opened facade: vacuum(), commit(),
\* rollback().
NextTx ==
    \/ VacuumCall
    \/ VacuumDone
    \/ QueryCall
    \/ QueryDone
    \/ TxCall
    \/ TxDone

SpecTx == InitMaint /\ [][NextTx]_vars

----------------------------------------------------------------------------
(* The migration engine: open() against storage files of every layout, with
   an engine that fails only on statements it cannot execute (faults = 0) *)

\* Rows in each table of the initial storage file
InitRows == 2
\* Columns of the initial "items" table, at most
MaxPhysCols == 3

NoDefault == NULL

\* Declared schemas.  "items" renames link to url and adds size with a
\* default; in ItemsChained a previous name is itself a declared column.
ItemsCols ==
    <<Column("id", NoName, TRUE, FALSE, NoDefault),
      Column("url", "link", FALSE, FALSE, NoDefault),
      Column("size", NoName, FALSE, FALSE, <<"dflt", 0>>)>>

ItemsChained ==
    <<Column("id", NoName, TRUE, FALSE, NoDefault),
      Column("link", "size", FALSE, FALSE, <<"dflt", 0>>),
      Column("size", NoName, FALSE, FALSE, NoDefault)>>

\* Two previous names in one table: the name a column is renamed to is the
\* previous name of the column declared after it.
ItemsTwice ==
    <<Column("id", NoName, TRUE, FALSE, NoDefault),
      Column("size", "url", FALSE, FALSE, NoDefault),
      Column("link", "size", FALSE, FALSE, NoDefault)>>

\* Two declared columns with the same previous name.
ItemsShared ==
    <<Column("id", NoName, TRUE, FALSE, NoDefault),
      Column("url", "link", FALSE, FALSE, NoDefault),
      Column("size", "link", FALSE, FALSE, NoDefault)>>

ArchiveCols ==
    <<Column("id", NoName, TRUE, FALSE, NoDefault),
      Column("url", NoName, FALSE, FALSE, NoDefault)>>

SchemaChoices ==
    { <<[name |-> "items", cols |-> ItemsCols]>>,
      <<[name |-> "items", cols |-> ItemsTwice]>>,
      <<[name |-> "items", cols |-> ItemsShared]>>,
      <<[name |-> "items", cols |-> ItemsChained],
        [name |-> "archive", cols |-> ArchiveCols]>> }

PhysColumns == {"id", "url", "size", "link"}

\* Every physical column order of at most n columns.
Layouts(n) ==
    {l \in UNION {[1..k -> PhysColumns] : k \in 1..n} :
        \A a, b \in DOMAIN l : a # b => l[a] # l[b]}

\* A table of the initial file: every cell holds a value of its own.
InitialTable(cols) ==
    [cols |-> cols,
     rows |-> [r \in 1..InitRows |-> [k \in DOMAIN cols |-> <<cols[k], r>>]],
     rowid |-> 1]

\* The file d with its tables created in the given order.
CreatedIn(d, order) == [t \in DOMAIN d |-> [d[t] EXCEPT !.rowid = Index(order, t)]]

\* Every order in which the tables of the set S can have been created.
Orders(S) == {o \in [1..Cardinality(S) -> S] : Range(o) = S}

\* The files of the set D, each in every order of creation.
InEveryOrder(D) == UNION {{CreatedIn(d, o) : o \in Orders(DOMAIN d)} : d \in D}

\* The tables around "items" in the initial file: none, an undeclared one, or
\* an undeclared one and "archive" with its columns in another order.
Surroundings ==
    { <<>>,
      [t \in {"junk"} |-> InitialTable(<<"id">>)],
      [t \in {"junk", "archive"} |->
          IF t = "junk" THEN InitialTable(<<"id">>) ELSE InitialTable(<<"url", "id">>)] }

WithItems(d, tb) == [t \in DOMAIN d \cup {"items"} |-> IF t = "items" THEN tb ELSE d[t]]

InitialStores ==
    Surroundings \cup {WithItems(d, InitialTable(l)) : d \in Surroundings, l \in Layouts(MaxPhysCols)}

InitMig ==
    /\ tables \in SchemaChoices
    /\ reorder \in BOOLEAN
    /\ delete_unused \in BOOLEAN
    /\ backup_enabled = TRUE
    /\ vacuum_enabled = TRUE
    /\ ready = FALSE
    /\ busy = FALSE
    /\ conns = <<>>
    /\ backup_timer = NoTimer
    /\ vacuum_timer = NoTimer
    /\ intervals = {}
    /\ backupFile = FALSE
    /\ db \in InEveryOrder(InitialStores)
    /\ errlog = {}
    /\ faults = 0
    /\ calls = <<>>
    /\ closes = <<>>
    /\ thr = <<>>
    /\ mig = MigInit0
    /\ NoWeb
    /\ NoTx
    /\ NoCrud

NextMig ==
    \/ OpenCall
    \/ OpenMkdirDone
    \/ OpenConnectDone
    \/ CreateTableExistsDone
    \/ CreateTableDone
    \/ RenameOldExistsDone
    \/ RenameNewExistsDone
    \/ RenameFieldDone
    \/ AddFieldsInfoDone
    \/ AddFieldDone
    \/ AddFieldDefaultDone
    \/ DeleteFieldDone
    \/ ReorderInfoDone
    \/ ReorderTempDeleteDone
    \/ ReorderTempExistsDone
    \/ ReorderTempCreateDone
    \/ ReorderCopyDone
    \/ ReorderDropExistsDone
    \/ ReorderDropDone
    \/ ReorderRenameOldExistsDone
    \/ ReorderRenameNewExistsDone
    \/ ReorderRenameDone
    \/ OpenGetTablesDone
    \/ PruneExistsDone
    \/ PruneDropDone

SpecMig == InitMig /\ [][NextMig]_vars

\* Columns of the initial "items" table under a failing engine, at most
MaxErrCols == 2

\* The migration with an engine that may fail: the same program, started on
\* the files of ErrStores, with MaxFaults engine errors to inject.
ErrStores ==
    LET around == {d \in Surroundings : DOMAIN d # {"junk"}}
    IN  around \cup {WithItems(d, InitialTable(l)) : d \in around, l \in Layouts(MaxErrCols)}

InitMigErr ==
    /\ tables \in SchemaChoices
    /\ reorder \in BOOLEAN
    /\ delete_unused \in BOOLEAN
    /\ backup_enabled = TRUE
    /\ vacuum_enabled = TRUE
    /\ ready = FALSE
    /\ busy = FALSE
    /\ conns = <<>>
    /\ backup_timer = NoTimer
    /\ vacuum_timer = NoTimer
    /\ intervals = {}
    /\ backupFile = FALSE
    /\ db \in InEveryOrder(ErrStores)
    /\ errlog = {}
    /\ faults = MaxFaults
    /\ calls = <<>>
    /\ closes = <<>>
    /\ thr = <<>>
    /\ mig = MigInit0
    /\ NoWeb
    /\ NoTx
    /\ NoCrud

SpecMigErr == InitMigErr /\ [][NextMig]_vars

----------------------------------------------------------------------------
(* The generated models: create/save/find/delete on an opened facade *)

\* The files open() leaves behind for ItemsCols: the declared order, empty or
\* with rows; size before url (url added later, reorder off), empty; a
\* leftover column (delete_unused off), with rows.
CrudStores ==
    { [t \in {"items"} |-> tb] :
        tb \in { InitialTable(<<"id", "url", "size">>),
                 [InitialTable(<<"id", "url", "size">>) EXCEPT !.rows = <<>>],
                 [InitialTable(<<"id", "size", "url">>) EXCEPT !.rows = <<>>],
                 InitialTable(<<"id", "url", "size", "link">>) } }

InitCrud ==
    /\ tables = <<[name |-> "items", cols |-> ItemsCols]>>
    /\ reorder = FALSE
    /\ delete_unused = FALSE
    /\ backup_enabled = FALSE
    /\ vacuum_enabled = FALSE
    /\ ready = TRUE
    /\ busy = FALSE
    /\ conns = <<"open">>
    /\ backup_timer = NoTimer
    /\ vacuum_timer = NoTimer
    /\ intervals = {}
    /\ backupFile = FALSE
    /\ db \in CrudStores
    /\ errlog = {}
    /\ faults = MaxFaults
    /\ calls = <<>>
    /\ closes = <<>>
    /\ thr = <<>>
    /\ mig = MigInit0
    /\ NoWeb
    /\ NoTx
    /\ inst = <<>>
    /\ tasks = <<>>
    /\ obs = [edits |-> 0, calls |-> 0, overlaps |-> 0, last |-> NoTask, prev |-> NoTask]

NextCrud ==
    \/ Create
    \/ Assign
    \/ SaveCall
    \/ SaveExistsDone
    \/ SaveInsertDone
    \/ SaveUpdateDone
    \/ FindCall
    \/ FindDone
    \/ DeleteCall
    \/ InstanceDeleteCall
    \/ DeleteDone

SpecCrud == InitCrud /\ [][NextCrud]_vars

----------------------------------------------------------------------------
(* The generated models of two tables: find/move on an opened facade *)

\* A second model whose key and columns are those of ItemsCols.
ShelfCols == ItemsCols

\* The destination as open() may leave it: in the declared order, empty or
\* holding a row under the first key of the source; or with size before url
\* (url added later, reorder off), empty.
ShelfStores ==
    { [InitialTable(<<"id", "url", "size">>) EXCEPT !.rows = <<>>],
      [InitialTable(<<"id", "url", "size">>) EXCEPT
          !.rows = <<[@[InitRows] EXCEPT ![1] = <<"id", 1>>]>>],
      [InitialTable(<<"id", "size", "url">>) EXCEPT !.rows = <<>>] }

MoveStores ==
    { [t \in {"items", "archive"} |->
          IF t = "items" THEN InitialTable(<<"id", "url", "size">>) ELSE tb] :
        tb \in ShelfStores }

InitMove ==
    /\ tables = <<[name |-> "items", cols |-> ItemsCols],
                  [name |-> "archive", cols |-> ShelfCols]>>
    /\ reorder = FALSE
    /\ delete_unused = FALSE
    /\ backup_enabled = FALSE
    /\ vacuum_enabled = FALSE
    /\ ready = TRUE
    /\ busy = FALSE
    /\ conns = <<"open">>
    /\ backup_timer = NoTimer
    /\ vacuum_timer = NoTimer
    /\ intervals = {}
    /\ backupFile = FALSE
    /\ db \in {CreatedIn(d, <<"items", "archive">>) : d \in MoveStores}
    /\ errlog = {}
    /\ faults = MaxFaults
    /\ calls = <<>>
    /\ closes = <<>>
    /\ thr = <<>>
    /\ mig = MigInit0
    /\ NoWeb
    /\ NoTx
    /\ inst = <<>>
    /\ tasks = <<>>
    /\ obs = [edits |-> 0, calls |-> 0, overlaps |-> 0, last |-> NoTask, prev |-> NoTask]

NextMove ==
    \/ FindCall
    \/ FindDone
    \/ MoveCall
    \/ MoveInsertDone
    \/ MoveDeleteDone
    \/ ConvertCall
    \/ Assign
    \/ SaveCall
    \/ SaveExistsDone
    \/ SaveInsertDone
    \/ SaveUpdateDone
    \/ ConvertDeleteDone

SpecMove == InitMove /\ [][NextMove]_vars

\* ---------------------------------------------------------------------------
\* convert() between models with different schemas: "items" (id, url, size
\* with a default) and "archive" (id, url), each table in its declared
\* layout with its rows.
\* ---------------------------------------------------------------------------
InitConvert ==
    /\ tables = <<[name |-> "items", cols |-> ItemsCols],
                  [name |-> "archive", cols |-> ArchiveCols]>>
    /\ reorder = FALSE
    /\ delete_unused = FALSE
    /\ backup_enabled = FALSE
    /\ vacuum_enabled = FALSE
    /\ ready = TRUE
    /\ busy = FALSE
    /\ conns = <<"open">>
    /\ backup_timer = NoTimer
    /\ vacuum_timer = NoTimer
    /\ intervals = {}
    /\ backupFile = FALSE
    /\ db \in { CreatedIn(
                   [t \in {"items", "archive"} |->
                      [InitialTable(IF t = "items" THEN <<"id", "url", "size">> ELSE <<"id", "url">>)
                         EXCEPT !.rows = IF t = full THEN @ ELSE <<>>]],
                   <<"items", "archive">>) :
                 full \in {"items", "archive"} }
    /\ errlog = {}
    /\ faults = MaxFaults
    /\ calls = <<>>
    /\ closes = <<>>
    /\ thr = <<>>
    /\ mig = MigInit0
    /\ NoWeb
    /\ NoTx
    /\ inst = <<>>
    /\ tasks = <<>>
    /\ obs = [edits |-> 0, calls |-> 0, overlaps |-> 0, last |-> NoTask, prev |-> NoTask]

NextConvert ==
    \/ FindCall
    \/ FindDone
    \/ Assign
    \/ ConvertCall
    \/ SaveExistsDone
    \/ SaveInsertDone
    \/ ConvertDeleteDone

SpecConvert == InitConvert /\ [][NextConvert]_vars

\* ---------------------------------------------------------------------------
\* Two instances of one row: after x = find(id1), y = find(id1) and
\* x.url = v, on "items" in the declared layout or with size before url.
\* The caller goes on to assign a field and to call save() on either.
\* ---------------------------------------------------------------------------
InitPair ==
    /\ tables = <<[name |-> "items", cols |-> ItemsCols]>>
    /\ reorder = FALSE
    /\ delete_unused = FALSE
    /\ backup_enabled = FALSE
    /\ vacuum_enabled = FALSE
    /\ ready = TRUE
    /\ busy = FALSE
    /\ conns = <<"open">>
    /\ backup_timer = NoTimer
    /\ vacuum_timer = NoTimer
    /\ intervals = {}
    /\ backupFile = FALSE
    /\ db \in { [t \in {"items"} |-> tb] :
                 tb \in { InitialTable(<<"id", "url", "size">>),
                          InitialTable(<<"id", "size", "url">>) } }
    /\ errlog = {}
    /\ faults = MaxFaults
    /\ calls = <<>>
    /\ closes = <<>>
    /\ thr = <<>>
    /\ mig = MigInit0
    /\ NoWeb
    /\ NoTx
    /\ inst = <<[NewInstance("items", FromRow("items", 1), "find")
                   EXCEPT !.vals[2] = <<"url", MaxVals>>],
                NewInstance("items", FromRow("items", 1), "find")>>
    /\ tasks = <<>>
    /\ obs = [edits |-> 0, calls |-> 0, overlaps |-> 0, last |-> NoTask, prev |-> NoTask]

NextPair ==
    \/ Assign
    \/ SaveCall
    \/ SaveExistsDone
    \/ SaveInsertDone
    \/ SaveUpdateDone

SpecPair == InitPair /\ [][NextPair]_vars

\* ---------------------------------------------------------------------------
\* The column updates and find(): "items" with its rows in the declared
\* layout (each row with a url of its own, or the rows sharing one url) or
\* with size before url, or empty.
\* ---------------------------------------------------------------------------
InitSet ==
    /\ tables = <<[name |-> "items", cols |-> ItemsCols]>>
    /\ reorder = FALSE
    /\ delete_unused = FALSE
    /\ backup_enabled = FALSE
    /\ vacuum_enabled = FALSE
    /\ ready = TRUE
    /\ busy = FALSE
    /\ conns = <<"open">>
    /\ backup_timer = NoTimer
    /\ vacuum_timer = NoTimer
    /\ intervals = {}
    /\ backupFile = FALSE
    /\ db \in { [t \in {"items"} |-> tb] :
                 tb \in { InitialTable(<<"id", "url", "size">>),
                          [InitialTable(<<"id", "url", "size">>) EXCEPT
                              !.rows[InitRows][2] = <<"url", 1>>],
                          InitialTable(<<"id", "size", "url">>),
                          [InitialTable(<<"id", "url", "size">>) EXCEPT !.rows = <<>>] } }
    /\ errlog = {}
    /\ faults = MaxFaults
    /\ calls = <<>>
    /\ closes = <<>>
    /\ thr = <<>>
    /\ mig = MigInit0
    /\ NoWeb
    /\ NoTx
    /\ inst = <<>>
    /\ tasks = <<>>
    /\ obs = [edits |-> 0, calls |-> 0, overlaps |-> 0, last |-> NoTask, prev |-> NoTask]

NextSet ==
    \/ SetCall
    \/ SetDone
    \/ FindCall
    \/ FindDone

SpecSet == InitSet /\ [][NextSet]_vars

----------------------------------------------------------------------------
(* The generated models of a table with and a table without a key column *)

\* A model without a key column, with a sensitive column.
LogCols ==
    <<Column("id", NoName, FALSE, FALSE, NoDefault),
      Column("url", NoName, FALSE, FALSE, NoDefault),
      Column("size", NoName, FALSE, TRUE, NoDefault)>>

InitModels ==
    /\ tables = <<[name |-> "items", cols |-> ItemsCols],
                  [name |-> "log", cols |-> LogCols]>>
    /\ reorder = FALSE
    /\ delete_unused = FALSE
    /\ backup_enabled = FALSE
    /\ vacuum_enabled = FALSE
    /\ ready = TRUE
    /\ busy = FALSE
    /\ conns = <<"open">>
    /\ backup_timer = NoTimer
    /\ vacuum_timer = NoTimer
    /\ intervals = {}
    /\ backupFile = FALSE
    /\ db = CreatedIn([t \in {"items", "log"} |-> InitialTable(<<"id", "url", "size">>)],
                       <<"items", "log">>)
    /\ errlog = {}
    /\ faults = MaxFaults
    /\ calls = <<>>
    /\ closes = <<>>
    /\ thr = <<>>
    /\ mig = MigInit0
    /\ NoWeb
    /\ NoTx
    /\ inst = <<>>
    /\ tasks = <<>>
    /\ obs = [edits |-> 0, calls |-> 0, overlaps |-> 0, last |-> NoTask, prev |-> NoTask]

NextModels ==
    \/ Create
    \/ Show
    \/ Refuse
    \/ SetCall
    \/ SetDone
    \/ ColumnMoveCall
    \/ MoveInsertDone
    \/ MoveDeleteDone
    \/ FetchCall
    \/ FetchDone

SpecModels == InitModels /\ [][NextModels]_vars

----------------------------------------------------------------------------
(* The lifecycle of a facade: open(), the maintenance timers, close() *)

\* A constructed facade without declared tables, on an empty storage file.
InitLife ==
    /\ tables = <<>>
    /\ reorder = FALSE
    /\ delete_unused = FALSE
    /\ backup_enabled \in BOOLEAN
    /\ vacuum_enabled \in BOOLEAN
    /\ ready = FALSE
    /\ busy = FALSE
    /\ conns = <<>>
    /\ backup_timer = NoTimer
    /\ vacuum_timer = NoTimer
    /\ intervals = {}
    /\ backupFile \in BOOLEAN
    /\ db = <<>>
    /\ errlog = {}
    /\ faults = MaxFaults
    /\ calls = <<>>
    /\ closes = <<>>
    /\ thr = <<>>
    /\ mig = MigInit0
    /\ NoWeb
    /\ NoTx
    /\ NoCrud

NextLife ==
    \/ OpenCall
    \/ OpenMkdirDone
    \/ OpenConnectDone
    \/ OpenGetTablesDone
    \/ TimerTick
    \/ BackupMkdirDone
    \/ BackupUnlinkDone
    \/ BackupCopyOpens
    \/ BackupCopyDone
    \/ VacuumDone
    \/ CloseCall
    \/ CloseBackupDone
    \/ CloseDone

SpecLife == InitLife /\ [][NextLife]_vars

----------------------------------------------------------------------------
(* The HTTP layer (src/unnamed/part_001): /prepare/<id> and /download/<id>
   requests against the "items" model of an opened facade.  Every await of a
   handler is a point where another request may run. *)

\* Requests in one behaviour
MaxRequests == 3
\* Distinct workshop items (steamId with its time_updated) that are requested
MaxItems == 2

\* config.DATABASE_TABLES.items (config.ts 10-17)
WebCols ==
    <<Column("id", NoName, TRUE, FALSE, NoDefault),
      Column("steamd_id", NoName, FALSE, FALSE, NoDefault),
      Column("download_url", NoName, FALSE, FALSE, NoDefault),
      Column("size", NoName, FALSE, FALSE, NoDefault)>>

\* fid = `${steamId}_${workshopItem.time_updated}` of item k (part_001 139)
Fid(k) == <<"id", k>>

\* The arguments of db.models.items.create(fid, steamId, url, fileSize)
\* (part_001 162)
WebRow(k) == <<Fid(k), <<"steamd_id", k>>, <<"download_url", k>>, <<"size", k>>>>

\* The positions of a request inside prepareItem, from config.BUSY = true to
\* the return (part_001 136-168).
PreparePcs == {"p_delete", "p_find", "p_download", "p_upload", "p_exists", "p_insert"}

\* The requests with a prepareItem run in progress.
Preparing == {r \in DOMAIN reqs : reqs[r].pc \in PreparePcs}

webFrame == <<faults, optVars, tx, facVars, backupFile, errlog, calls, closes, thr, mig, crudVars>>

\* A request arrives: the id is validated and config.BUSY is tested before the
\* first await (part_001 73-76, 96-99).
Request ==
    /\ Len(reqs) < MaxRequests
    /\ \E route \in {"prepare", "download"}, k \in 1..MaxItems, valid \in BOOLEAN :
         reqs' = Append(reqs,
                   [route |-> route, item |-> k, force |-> FALSE, direct |-> FALSE,
                    pc |-> IF ~valid \/ BUSY THEN "done" ELSE "details",
                    code |-> IF ~valid THEN 400 ELSE IF BUSY THEN 503 ELSE 0])
    /\ UNCHANGED <<BUSY, db, webFrame>>

\* prepareItem(ip, steamId, workshopItem, force) is entered: config.BUSY is
\* set, then items.delete(fid) (force) or items.find(fid) is awaited
\* (part_001 138-141).
PrepareItem(r, force) ==
    /\ BUSY' = TRUE
    /\ reqs' = [reqs EXCEPT ![r].force = force,
                            ![r].pc = IF force THEN "p_delete" ELSE "p_find"]

\* The response is started: /prepare answers 200 (part_001 92); /download
\* writes the head with 200 and awaits the stream (part_001 120-123).
Sent(q) ==
    IF q.route = "prepare" THEN [q EXCEPT !.pc = "done", !.code = 200]
    ELSE [q EXCEPT !.pc = "stream", !.code = 200]

\* prepareItem returns result; every return clears config.BUSY (part_001
\* 141, 161, 163, 167).  The handler goes on: 500 on false; after the first
\* run the item is looked up (part_001 84, 110), after the forced run the
\* response is sent (part_001 86-92, 112-123).
PrepareReturned(r, result) ==
    /\ BUSY' = FALSE
    /\ reqs' = [reqs EXCEPT ![r] =
                  IF ~result THEN [@ EXCEPT !.pc = "done", !.code = 500]
                  ELSE IF ~@.force THEN [@ EXCEPT !.pc = "find"]
                  ELSE Sent(@)]

\* SteamUtils.getItemDetails resolved (part_001 80-82, 103-108).  It resolves
\* null on a request error or an answer without details (part_000 159-160),
\* and indexing null throws inside the handler: nothing is sent.  Otherwise:
\* 404 without a result; with a direct file_url prepareItem is skipped; else
\* prepareItem(.., false) starts.
DetailsDone ==
    \E r \in DOMAIN reqs, details \in {"null", "none", "direct", "workshop"} :
      /\ reqs[r].pc = "details"
      /\ CASE details = "null" ->
                reqs' = [reqs EXCEPT ![r].pc = "threw"] /\ UNCHANGED BUSY
           [] details = "none" ->
                reqs' = [reqs EXCEPT ![r].pc = "done", ![r].code = 404] /\ UNCHANGED BUSY
           [] details = "direct" ->
                reqs' = [reqs EXCEPT ![r].direct = TRUE, ![r].pc = "find"] /\ UNCHANGED BUSY
           [] details = "workshop" -> PrepareItem(r, FALSE)
      /\ UNCHANGED <<db, webFrame>>

\* prepareItem: items.delete(fid) resolved (part_001 140; database.ts
\* 391-394, 809-816); items.find(fid) is awaited next.
PrepareDeleteDone ==
    \E r \in DOMAIN reqs :
      /\ reqs[r].pc = "p_delete"
      /\ db' = DbDeleteFirst(db, "items", "id", Fid(reqs[r].item))
      /\ reqs' = [reqs EXCEPT ![r].pc = "p_find"]
      /\ UNCHANGED <<BUSY, webFrame>>

\* prepareItem: items.find(fid) resolved (part_001 141): a stored item ends
\* the run with true, otherwise the download starts.
PrepareFindDone ==
    \E r \in DOMAIN reqs :
      /\ reqs[r].pc = "p_find"
      /\ IF Matching(db, "items", "id", Fid(reqs[r].item)) # {}
           THEN PrepareReturned(r, TRUE)
           ELSE reqs' = [reqs EXCEPT ![r].pc = "p_download"] /\ UNCHANGED BUSY
      /\ UNCHANGED <<db, webFrame>>

\* prepareItem: SteamUtils.downloadItems settled (part_001 144-149): a
\* rejection, a missing zip or a zip of MAX_FILE_SIZE or more throws, and the
\* catch clears BUSY and returns false (part_001 164-167).
PrepareDownloadDone ==
    \E r \in DOMAIN reqs, ok \in BOOLEAN :
      /\ reqs[r].pc = "p_download"
      /\ IF ok THEN reqs' = [reqs EXCEPT ![r].pc = "p_upload"] /\ UNCHANGED BUSY
               ELSE PrepareReturned(r, FALSE)
      /\ UNCHANGED <<db, webFrame>>

\* prepareItem: Transporter.uploadZipArchive resolved (part_001 153-161):
\* without a url the run returns false, otherwise create(..).save() starts
\* with its valueExists (database.ts 283).
PrepareUploadDone ==
    \E r \in DOMAIN reqs, url \in BOOLEAN :
      /\ reqs[r].pc = "p_upload"
      /\ IF url THEN reqs' = [reqs EXCEPT ![r].pc = "p_exists"] /\ UNCHANGED BUSY
                ELSE PrepareReturned(r, FALSE)
      /\ UNCHANGED <<db, webFrame>>

\* prepareItem: the valueExists of save() resolved (database.ts 283-296): a
\* stored key leaves nothing to update on a fresh instance, and save()
\* returns; otherwise the INSERT is sent.
PrepareSaveExistsDone ==
    \E r \in DOMAIN reqs :
      /\ reqs[r].pc = "p_exists"
      /\ IF Matching(db, "items", "id", Fid(reqs[r].item)) # {}
           THEN PrepareReturned(r, TRUE)
           ELSE reqs' = [reqs EXCEPT ![r].pc = "p_insert"] /\ UNCHANGED BUSY
      /\ UNCHANGED <<db, webFrame>>

\* prepareItem: the INSERT of save() resolved (database.ts 287-289, 744-751);
\* the run returns true (part_001 163).
PrepareSaveInsertDone ==
    \E r \in DOMAIN reqs :
      /\ reqs[r].pc = "p_insert"
      /\ db' = DbInsert(db, "items", WebRow(reqs[r].item))
      /\ PrepareReturned(r, TRUE)
      /\ UNCHANGED webFrame

\* The handler's items.find(fid) resolved (part_001 84-87, 110-113).  With a
\* direct file_url the file counts as existing; a missing row makes
\* dbItem.download_url throw inside the handler; otherwise
\* Transporter.fileExists is awaited.
HandlerFindDone ==
    \E r \in DOMAIN reqs :
      /\ reqs[r].pc = "find"
      /\ reqs' = [reqs EXCEPT ![r] =
                    IF @.direct THEN Sent(@)
                    ELSE IF Matching(db, "items", "id", Fid(@.item)) = {}
                      THEN [@ EXCEPT !.pc = "threw"]
                      ELSE [@ EXCEPT !.pc = "exists"]]
      /\ UNCHANGED <<BUSY, db, webFrame>>

\* Transporter.fileExists resolved (part_001 85-87, 111-113): the response is
\* sent, or prepareItem(.., true) starts.
FileExistsDone ==
    \E r \in DOMAIN reqs, exists \in BOOLEAN :
      /\ reqs[r].pc = "exists"
      /\ IF exists THEN reqs' = [reqs EXCEPT ![r] = Sent(@)] /\ UNCHANGED BUSY
                   ELSE PrepareItem(r, TRUE)
      /\ UNCHANGED <<db, webFrame>>

\* /download: Transporter.downloadFileAsStream resolved (part_001 123-126):
\* the stream is piped, or sendResponse runs on a response whose head is
\* already written and throws.
StreamDone ==
    \E r \in DOMAIN reqs, stream \in BOOLEAN :
      /\ reqs[r].pc = "stream"
      /\ reqs' = [reqs EXCEPT ![r].pc = IF stream THEN "done" ELSE "threw"]
      /\ UNCHANGED <<BUSY, db, webFrame>>

\* The server after db.open() (part_001 23-37): the declared "items" table,
\* empty or holding the first item, and an engine that answers every call.
InitWeb ==
    /\ tables = <<[name |-> "items", cols |-> WebCols]>>
    /\ reorder = TRUE
    /\ delete_unused = TRUE
    /\ backup_enabled = TRUE
    /\ vacuum_enabled = FALSE
    /\ ready = TRUE
    /\ busy = FALSE
    /\ conns = <<"open">>
    /\ backup_timer = <<"backup", 1>>
    /\ vacuum_timer = NoTimer
    /\ intervals = {backup_timer}
    /\ backupFile = FALSE
    /\ db \in { [t \in {"items"} |->
                   [cols |-> <<"id", "steamd_id", "download_url", "size">>, rows |-> rows,
                    rowid |-> 1]] :
                rows \in {<<>>, <<WebRow(1)>>} }
    /\ errlog = {}
    /\ faults = 0
    /\ calls = <<>>
    /\ closes = <<>>
    /\ thr = <<>>
    /\ mig = MigInit0
    /\ NoCrud
    /\ NoWeb
    /\ NoTx

NextWeb ==
    \/ Request
    \/ DetailsDone
    \/ PrepareDeleteDone
    \/ PrepareFindDone
    \/ PrepareDownloadDone
    \/ PrepareUploadDone
    \/ PrepareSaveExistsDone
    \/ PrepareSaveInsertDone
    \/ HandlerFindDone
    \/ FileExistsDone
    \/ StreamDone

SpecWeb == InitWeb /\ [][NextWeb]_vars

----------------------------------------------------------------------------
(* Claims about the maintenance *)

Running(c) ==
    \/ c.kind = "backup" /\ c.pc \in {"unlink", "copy"}
    \/ c.kind = "vacuum" /\ c.pc = "vacuum"

\* C1: maintenance never overlaps: no backup file operation (removal of the
\* stale file, copy) is in progress while a vacuum runs, and no two backups
\* and no two vacuums are in progress at the same time.
C1_NoOverlap ==
    \A i, j \in DOMAIN calls :
        i # j => ~(Running(calls[i]) /\ Running(calls[j]))

\* C2: a backup() invoked while another backup() is in flight returns 429 and
\* performs no file operation.
C2_SecondBackupIsBusy ==
    \A i \in DOMAIN calls :
        (calls[i].kind = "backup" /\ calls[i].ovl)
            => (calls[i].res = Busy429 /\ ~calls[i].fs)

\* C3: every backup() or vacuum() that set the busy flag has cleared it when
\* it has finished, so that once no maintenance is in flight the flag is
\* clear and the next call is admitted.
C3_BusyReleased ==
    /\ \A i \in DOMAIN calls :
         (calls[i].pc = "done" /\ calls[i].set) => calls[i].cleared
    /\ (\A i \in DOMAIN calls : calls[i].pc = "done") => ~busy

----------------------------------------------------------------------------
(* Claims about open() and the migration *)

\* C4: an open() during which a migration statement failed does not report
\* success, does not set ready and arms no maintenance timer.
C4_FailedOpenNeverReady ==
    \A i \in DOMAIN thr :
        (thr[i].main /\ thr[i].op \in mig.failed)
            => /\ thr[i].res # 200
               /\ thr[i].op \notin mig.readyBy
               /\ thr[i].op \notin mig.timersBy

\* C5: after a statement of the migration of a table has failed, the same
\* open() executes no further structural statement against that table.
C5_FailFast == mig.late = {}

\* C6: with an engine that reports no error, every open() after the first
\* executes no structural statement, and the storage it finds (tables,
\* columns, column order, rows) is the storage it leaves.
C6_Idempotent ==
    /\ \A op \in mig.ddl : op = 1
    /\ Cardinality(Opens) >= 2 => db = mig.snap

\* A second open() has returned 200 on a storage the first one had to change,
\* with reorder and delete_unused set and rows in the declared table.
C6_SecondOpenAfterChanges ==
    /\ 1 \in mig.ddl
    /\ reorder /\ delete_unused
    /\ \E i \in DOMAIN thr : thr[i].op = 2 /\ thr[i].pc = "done" /\ thr[i].res = 200
    /\ \E i \in DOMAIN tables :
          /\ Exists(tables[i].name)
          /\ db[tables[i].name].cols = ColNames(tables[i].cols)
          /\ db[tables[i].name].rows # <<>>

\* C7: a completed rebuild leaves the rows of the table, each a mapping from
\* column name to value, the same multiset, over the same columns, with the
\* declared columns first in declared order.
C7_RebuildKeepsRows ==
    \A k \in DOMAIN mig.rebuilt :
        LET r == mig.rebuilt[k]
        IN  /\ r.after.rows = r.before.rows
            /\ Range(r.after.cols) = Range(r.before.cols)
            /\ Len(r.after.cols) = Len(r.before.cols)
            /\ SubSeq(r.after.cols, 1, Len(r.declared)) = r.declared

\* A table with rows and a leftover column was rebuilt into another order.
C7_RebuiltOutOfOrder ==
    \E k \in DOMAIN mig.rebuilt :
        /\ mig.rebuilt[k].before.cols # mig.rebuilt[k].after.cols
        /\ mig.rebuilt[k].before.rows # <<>>
        /\ Len(mig.rebuilt[k].before.cols) > Len(mig.rebuilt[k].declared)

----------------------------------------------------------------------------
(* Claims about the generated models *)

\* The last two operations ran one after the other, nothing else in flight.
InSequence == obs.prev.alone /\ obs.last.alone

\* C8: create(v1..vn).save() on a key that is not stored, followed by
\* find(key), returns an instance whose toObject(true) maps every declared
\* column to the value passed for it to create.
C8_CreateSaveFind ==
    LET s == obs.prev
        g == obs.last
    IN  (/\ InSequence
         /\ s.op = "save" /\ s.created /\ ~s.existed /\ s.status
         /\ g.op = "find" /\ ~g.err /\ g.tbl = s.tbl /\ g.key = s.key)
        => /\ g.status
           /\ g.got = ToObject(NewInstance(s.tbl, s.args, "create"), TRUE)

\* The storage pre with the columns upd of the first row of table t that has
\* the key set to the values args, and nothing else changed.
OnlyChanged(pre, t, key, upd, args) ==
    [pre EXCEPT ![t].rows =
        [r \in DOMAIN @ |->
            IF r = First(Matching(pre, t, KeyName(t), key))
            THEN [k \in DOMAIN @[r] |->
                    IF \E c \in upd : Schema(t)[c].name = pre[t].cols[k]
                    THEN args[CHOOSE c \in upd : Schema(t)[c].name = pre[t].cols[k]]
                    ELSE @[r][k]]
            ELSE @[r]]]

\* C9: a successful save() of an instance loaded from a stored row writes
\* the changed non-key columns of that row and nothing else; and a save()
\* that follows a successful one with no assignment in between writes
\* nothing and reports success.
C9_SaveWritesChanges ==
    LET p == obs.prev
        s == obs.last
    IN  /\ (s.op = "save" /\ s.alone /\ s.loaded /\ s.existed /\ s.status)
            => /\ ~s.ins
               /\ s.post = OnlyChanged(s.pre, s.tbl, s.key, s.upd, s.args)
        /\ (/\ InSequence
            /\ p.op = "save" /\ p.loaded /\ p.existed /\ p.status
            /\ s.op = "save" /\ s.i = p.i /\ s.edits = p.edits)
            => /\ s.upd = {} /\ s.wrote = {} /\ ~s.ins
               /\ s.res = 200 /\ s.status
               /\ s.post = s.pre

\* C10: delete(pkey) that completed without an engine error, followed by
\* find(pkey), finds no row.
C10_DeleteThenFind ==
    LET d == obs.prev
        g == obs.last
    IN  (/\ InSequence
         /\ d.op = "delete" /\ ~d.err
         /\ g.op = "find" /\ g.tbl = d.tbl /\ g.key = d.key)
        => ~g.status

\* The tables of the move m align: the models declare the same columns and
\* the files hold them in the same order.
Aligned(m) ==
    /\ ColNames(Schema(m.tbl)) = ColNames(Schema(m.dest))
    /\ PKey(Schema(m.tbl)) = PKey(Schema(m.dest))
    /\ m.pre[m.tbl].cols = m.pre[m.dest].cols

\* C11: for aligned tables and a key stored in the source, instance.move
\* followed by find(key) finds no row on the source model, and on the
\* destination model finds the moved row with the column values it had in
\* the source.
C11_MoveThenFind ==
    LET m == obs.prev
        g == obs.last
    IN  (/\ InSequence
         /\ m.op = "move" /\ m.existed /\ Aligned(m) /\ ~m.err
         /\ g.op = "find" /\ ~g.err /\ g.key = m.key)
        => /\ g.tbl = m.tbl => ~g.status
           /\ g.tbl = m.dest =>
                /\ g.status
                /\ g.got = ToObject(NewInstance(m.dest, m.args, "find"), TRUE)

\* C12: when the save of the new instance inside convert() fails, convert
\* returns null and issues no delete: no convert waits for or has completed
\* a delete after a failed save, and a convert that ran with no other
\* operation in flight leaves the source table as it was.
C12_FailedConvertKeepsOriginal ==
    /\ \A t \in DOMAIN tasks : tasks[t].pc = "drop" => tasks[t].status
    /\ LET c == obs.last
       IN  (c.op = "convert" /\ ~c.status)
            => /\ c.found = 0
               /\ ~c.del
               /\ c.alone => c.post[inst[c.from].tbl] = c.pre[inst[c.from].tbl]

\* A convert of a stored row returned after its INSERT into the destination
\* failed.
C12_ConvertSaveFailed ==
    LET c == obs.last
    IN  /\ c.op = "convert" /\ ~c.status /\ c.alone /\ c.res = 500
        /\ Matching(db, inst[c.from].tbl, KeyName(inst[c.from].tbl),
                    inst[c.from].vals[PKey(Schema(inst[c.from].tbl))]) # {}

\* C13: toObject(false) of any instance holds exactly the declared columns
\* that are not flagged sensitive; toObject(true) and toObject() hold every
\* declared column; each column maps to the instance's value.
C13_ToObjectFilters ==
    LET o == obs.last
    IN  o.op = "toObject" =>
          /\ DOMAIN o.got =
               {Schema(o.tbl)[c].name : c \in {c \in DOMAIN Schema(o.tbl) :
                    o.flag # "false" \/ ~Schema(o.tbl)[c].sensitive}}
          /\ \A c \in DOMAIN Schema(o.tbl) :
               Schema(o.tbl)[c].name \in DOMAIN o.got => o.got[Schema(o.tbl)[c].name] = o.args[c]

\* toObject(false) returned for an instance of a model with a sensitive
\* column, after toObject(true) or toObject() returned for the same model.
C13_SensitiveHidden ==
    /\ obs.last.op = "toObject" /\ obs.last.flag = "false"
    /\ \E c \in DOMAIN Schema(obs.last.tbl) : Schema(obs.last.tbl)[c].sensitive
    /\ obs.prev.op = "toObject" /\ obs.prev.flag # "false" /\ obs.prev.tbl = obs.last.tbl

\* C14: on a model without a key column every identity operation throws
\* before any engine call: none of them is ever in flight on such a table,
\* and each one that returned has thrown and left the storage as it was.
C14_KeylessRefuses ==
    /\ \A t \in DOMAIN tasks :
         tasks[t].op \in StaticIdentity \cup InstanceIdentity => HasKey(tasks[t].tbl)
    /\ LET o == obs.last
       IN  (o.op \in StaticIdentity \cup InstanceIdentity /\ ~HasKey(o.tbl))
            => o.thrown /\ o.res = 0 /\ o.post = o.pre

\* An instance operation and, before it, a static operation of the model
\* without a key were refused.
C14_BothKindsRefused ==
    /\ obs.last.thrown /\ obs.last.op \in InstanceIdentity
    /\ obs.prev.thrown /\ obs.prev.op \in StaticIdentity

\* C15: no operation of the model of a table without a key column changes
\* the stored rows of any table.
C15_KeylessReadOnly ==
    LET o == obs.last
    IN  (o.op # "none" /\ o.alone /\ ~HasKey(o.tbl)) => o.post = o.pre

\* The storage pre after the rows of table from whose column col holds v
\* went to the end of table to.
RowsMoved(pre, from, to, col, v) ==
    LET k == Index(pre[from].cols, col)
        moved == {r \in DOMAIN pre[from].rows : pre[from].rows[r][k] = v}
        tail  == Ascending(moved)
        kept  == Ascending(DOMAIN pre[from].rows \ moved)
    IN  [t \in DOMAIN pre |->
           [pre[t] EXCEPT
              !.rows = IF t = from THEN [r \in DOMAIN kept |-> pre[from].rows[kept[r]]]
                       ELSE IF t = to
                            THEN pre[to].rows \o [r \in DOMAIN tail |-> pre[from].rows[tail[r]]]
                            ELSE pre[t].rows]]

\* C18: in moveRows, a failed insert returns the failure and no delete is
\* issued, so the source is as it was; after a successful insert the delete
\* runs with the same column and value, and its result (the error, or
\* whether it removed a row) is the result of the move.
C18_MoveRowsSteps ==
    /\ \A t \in DOMAIN tasks : tasks[t].pc = "clear" => tasks[t].ins
    /\ LET m == obs.last
       IN  (m.op \in {"move", "column.move"} /\ ~m.thrown) =>
             /\ ~m.ins => /\ m.res = 500 /\ ~m.status
                          /\ m.alone => m.post = m.pre
             /\ (m.ins /\ m.err) => m.res = 500 /\ ~m.status
             /\ (m.ins /\ ~m.err) =>
                  /\ m.res = 200
                  /\ m.alone =>
                       /\ m.status = (\E r \in DOMAIN m.pre[m.tbl].rows :
                                        m.pre[m.tbl].rows[r][Index(m.pre[m.tbl].cols, m.col)] = m.key)
                       /\ m.post = RowsMoved(m.pre, m.tbl, m.dest, m.col, m.key)

\* A move whose insert failed was followed by a move whose insert and delete
\* succeeded and removed a row.
C18_FailedThenMoved ==
    /\ obs.prev.op = "move" /\ ~obs.prev.ins /\ obs.prev.alone
    /\ obs.last.op = "move" /\ obs.last.ins /\ obs.last.status /\ obs.last.alone

\* C19: when reorderFields reads a column list equal to the declared one,
\* it returns at once: the step that receives the list creates no temporary
\* table, issues no copy, drop or rename, leaves the storage as it is and
\* hands the migration on to what follows the table.
C19_ReorderNoOp ==
    [][\A i \in DOMAIN thr :
         (/\ thr[i].pc = "rf_info"
          /\ i \in DOMAIN thr' /\ thr'[i] # thr[i]
          /\ TableInfo(TName(thr[i])) = ColNames(TCols(thr[i])))
         => /\ db' = db
            /\ thr'[i].pc \in {"ct_exists", "o_tables"}
            /\ thr'[i].info = <<>>
            /\ mig'.ddl = mig.ddl /\ mig'.rebuilt = mig.rebuilt]_vars

\* reorderFields has just read, on a table with rows, a column list equal
\* to the declared one during an open() with reorder set, and the migration
\* went on.
C19_ReorderSawDeclaredOrder ==
    /\ reorder
    /\ mig.before # <<>>
    /\ mig.before.rows # BagOf(<<>>)
    /\ \E i \in DOMAIN thr : \E k \in DOMAIN tables :
         /\ thr[i].pc \in {"ct_exists", "o_tables"}
         /\ Exists(tables[k].name)
         /\ db[tables[k].name].cols = ColNames(tables[k].cols)
         /\ mig.before.cols = ColNames(tables[k].cols)
         /\ (thr[i].pc = "ct_exists" => thr[i].ti = k + 1)
         /\ (thr[i].pc = "o_tables" => k = Len(tables))

\* C20: a backup() that starts with the busy flag clear and no file at the
\* destination does not end at the removal of the absent file: it goes on
\* to copy the storage file.
C20_FirstBackupCopies ==
    \A i \in DOMAIN calls :
        (calls[i].kind = "backup" /\ calls[i].pc = "done" /\ calls[i].fs /\ calls[i].first)
            => calls[i].res # NoBackupFile

\* close() has resolved: its promise settled with the result of db.close.
CloseResolved == \E k \in DOMAIN closes : closes[k].pc = "done" /\ closes[k].res \in {200, 500}

\* C16: once close() has resolved, no tick of a maintenance timer starts a
\* backup or a vacuum on the facade.
C16_NoTickAfterClose ==
    [][CloseResolved =>
         (Len(calls') > Len(calls) => calls'[Len(calls')].by # "timer")]_vars

\* C17: after close() has completed the facade is not ready, no open() is
\* running or has made it ready again, and no maintenance timer is armed.
C17_ClosedIsTerminal ==
    (\E k \in DOMAIN closes : closes[k].pc = "done" /\ closes[k].res = 200)
        => /\ ~ready
           /\ intervals = {}
           /\ \A i \in DOMAIN thr : Settled(thr[i])

\* C21: close() acts in a fixed order.  The step that calls it clears both
\* stored timers and starts its one backup; close() asks the engine to
\* release the handle only when that backup has returned, whatever it
\* returned; and only a close() that has asked releases a connection (no
\* other step of close() changes the state of any connection).
C21_CloseOrder ==
    [][/\ Len(closes') > Len(closes) =>
            /\ backup_timer \notin intervals' /\ vacuum_timer \notin intervals'
            /\ Len(calls') = Len(calls) + 1
            /\ calls'[Len(calls')].by = "close"
            /\ closes'[Len(closes')].call = Len(calls')
            /\ conns' = conns
       /\ \A k \in DOMAIN closes :
            /\ (closes[k].pc = "backup" /\ closes'[k].pc # "backup")
                 => calls[closes[k].call].pc = "done" /\ conns' = conns
            /\ (closes[k].pc = "closing" /\ closes'[k].pc # "closing")
                 => calls[closes[k].call].pc = "done"
       /\ (closes' # closes /\ conns' # conns)
            => \E k \in DOMAIN closes : closes[k].pc = "closing" /\ closes'[k].pc = "done"]_vars

\* A close() of a facade with an armed timer has released the handle after
\* its backup returned without having copied.
C21_ClosedAfterFailedBackup ==
    \E k \in DOMAIN closes :
        /\ closes[k].pc = "done" /\ closes[k].res = 200
        /\ conns[closes[k].conn] = "closed"
        /\ mig.timersBy # {}
        /\ calls[closes[k].call].pc = "done" /\ calls[closes[k].call].res # 200

\* C22: the step in which close() releases its storage handle (the
\* connection it called close on) finds no
\* vacuum and no backup copy in flight.
C22_NoReleaseUnderMaintenance ==
    [][(closes' # closes /\ conns' # conns)
         => \A i \in DOMAIN calls : calls[i].pc \notin {"copy", "vacuum"}]_vars

\* C23: a timer tick that finds the busy flag set returns 429 at once: the
\* tick step changes neither the flag, the backup file, the storage nor the
\* handle, and the call it made stays as it returned, touching no file and
\* never running later.
C23_BusyTickSkipped ==
    [][/\ (busy /\ Len(calls') > Len(calls) /\ calls'[Len(calls')].by = "timer")
            => /\ calls'[Len(calls')].res = Busy429
               /\ calls'[Len(calls')].pc = "done"
               /\ ~calls'[Len(calls')].fs /\ ~calls'[Len(calls')].set
               /\ busy' = busy /\ backupFile' = backupFile
               /\ db' = db /\ conns' = conns
       /\ \A i \in DOMAIN calls :
            calls[i].res = Busy429 => calls'[i] = calls[i]]_vars

\* A tick was skipped with 429 and a later tick of the same timer ran to
\* its end.
C23_LaterTickRan ==
    \E i, j \in DOMAIN calls :
        /\ i < j
        /\ calls[i].by = "timer" /\ calls[i].res = Busy429
        /\ calls[j].by = "timer" /\ calls[j].kind = calls[i].kind
        /\ calls[j].pc = "done" /\ calls[j].res = 200

\* C24: no table of a model with a key column holds two rows with the same
\* value in that column.
C24_UniqueKeys ==
    \A k \in DOMAIN tables :
        LET t == tables[k].name
        IN  (HasKey(t) /\ Exists(t) /\ KeyName(t) \in Range(db[t].cols))
            => \A r1, r2 \in DOMAIN db[t].rows :
                 db[t].rows[r1][Index(db[t].cols, KeyName(t))]
                   = db[t].rows[r2][Index(db[t].cols, KeyName(t))] => r1 = r2

\* C25: every row the delete phase of moveRows removes from the source,
\* with the values it has then, is among the rows its insert phase copied.
C25_MoveLosesNoRow ==
    LET m == obs.last
    IN  (m.op \in {"move", "column.move"} /\ m.ins)
        => \A r \in DOMAIN m.removed :
             Cardinality({q \in DOMAIN m.removed : m.removed[q] = m.removed[r]})
               <= Cardinality({q \in DOMAIN m.copied : m.copied[q] = m.removed[r]})

\* The names both schemas declare.
SharedNames(a, b) ==
    {Schema(a)[c].name : c \in DOMAIN Schema(a)} \cap {Schema(b)[c].name : c \in DOMAIN Schema(b)}

\* C26: when convert returns an instance, the destination holds a row under
\* its key that carries the source instance's values on the columns both
\* schemas declare, and the source table holds no row under the original key.
C26_ConvertMoved ==
    LET c == obs.last
    IN  (c.op = "convert" /\ c.found # 0)
        => LET from == inst[c.from].tbl
               held == c.args[PKey(Schema(from))]
           IN  /\ \E r \in Matching(c.post, c.tbl, KeyName(c.tbl), c.key) :
                    \A n \in SharedNames(from, c.tbl) :
                        c.post[c.tbl].rows[r][Index(c.post[c.tbl].cols, n)]
                          = c.args[CHOOSE j \in DOMAIN Schema(from) : Schema(from)[j].name = n]
               /\ Matching(c.post, from, KeyName(from), held) = {}

\* C27: the instance convert builds carries, on every destination column the
\* source declares, the source's value, and on every other destination
\* column that column's declared default.
C27_ConvertDefaults ==
    LET c == obs.last
    IN  c.op = "convert"
        => LET from == inst[c.from].tbl
           IN  \A j \in DOMAIN Schema(c.tbl) :
                 inst[c.i].born[j]
                   = IF Schema(c.tbl)[j].name \in SharedNames(from, c.tbl)
                     THEN c.args[CHOOSE q \in DOMAIN Schema(from) :
                                   Schema(from)[q].name = Schema(c.tbl)[j].name]
                     ELSE Schema(c.tbl)[j].dflt

\* C28: after an insert of save() succeeded, the table holds a row whose
\* i-th declared column carries the i-th supplied value, for every i.
C28_InsertByDeclaredColumn ==
    LET c == obs.last
    IN  (c.op = "save" /\ c.ins)
        => \E r \in DOMAIN c.post[c.tbl].rows :
             \A j \in DOMAIN Schema(c.tbl) :
               /\ Schema(c.tbl)[j].name \in Range(c.post[c.tbl].cols)
               /\ c.post[c.tbl].rows[r][Index(c.post[c.tbl].cols, Schema(c.tbl)[j].name)]
                    = c.args[j]

\* C29: save() issues its insert only when the table holds no row under the
\* instance's key at that moment.
C29_InsertOnlyWithoutRow ==
    [][\A t \in DOMAIN tasks :
         (/\ Len(tasks') = Len(tasks)
          /\ tasks[t].op = "save" /\ tasks[t].pc = "exists"
          /\ tasks'[t].pc = "insert")
         => Matching(db, tasks[t].tbl, KeyName(tasks[t].tbl), tasks[t].key) = {}]_vars

\* The positions of a thread inside addFields.
InAddFields == {"af_rn1", "af_rn2", "af_rn3", "af_info", "af_add", "af_dflt", "af_drop"}

\* C30: when createTable returns to open() from an existing table with no
\* engine failure on that table, every declared column is a physical column;
\* with delete_unused the physical columns are the declared ones, and without
\* it every column the table had when open() began is still there, under its
\* name or under the declared name it was renamed to.
C30_CreateTableReconciles ==
    [][\A i \in DOMAIN thr :
         (/\ thr[i].main /\ thr[i].pc \in InAddFields
          /\ i \in DOMAIN thr' /\ thr'[i].op = thr[i].op /\ thr'[i].main
          /\ thr'[i].pc \notin InAddFields
          /\ <<thr[i].op, TName(thr[i])>> \notin mig'.failedTbl)
         => LET t    == TName(thr[i])
                decl == TCols(thr[i])
                phys == Range(db'[t].cols)
            IN  /\ Range(ColNames(decl)) \subseteq phys
                /\ delete_unused => phys = Range(ColNames(decl))
                /\ (~delete_unused /\ t \in DOMAIN mig.snap)
                     => /\ Len(db'[t].cols) >= Len(mig.snap[t].cols)
                        /\ \A c \in Range(mig.snap[t].cols) :
                             \/ c \in phys
                             \/ \E k \in DOMAIN decl : decl[k].old = c /\ decl[k].name \in phys]_vars

\* A first open() without reorder and with delete_unused has returned 200 on
\* a declared table that held a column the declaration does not name and
\* lacked one it names, and the table now has exactly the declared columns.
C30_ReconciledBothWays ==
    /\ ~reorder /\ delete_unused
    /\ Cardinality(Opens) = 1
    /\ \E i \in DOMAIN thr : thr[i].main /\ thr[i].pc = "done" /\ thr[i].res = 200
    /\ \E k \in DOMAIN tables :
         LET t == tables[k].name
             names == Range(ColNames(tables[k].cols))
         IN  /\ t \in DOMAIN mig.snap /\ Exists(t)
             /\ Range(mig.snap[t].cols) \ names # {}
             /\ names \ Range(mig.snap[t].cols) # {}
             /\ Range(db[t].cols) = names

\* The values of column c of table tb, row by row.
ColumnOf(tb, c) == [r \in DOMAIN tb.rows |-> tb.rows[r][Index(tb.cols, c)]]

\* C31 as stated: when createTable returns to open() from an existing table
\* with no engine failure on that table, every declared column whose
\* previous name was a physical column when open() began, and whose own name
\* was not, holds the values of that previous column row by row, and the
\* previous name is gone: the column was renamed, not added empty nor dropped.
C31_RenameBeforeAddAndDrop ==
    [][\A i \in DOMAIN thr :
         (/\ thr[i].main /\ thr[i].pc \in InAddFields
          /\ i \in DOMAIN thr' /\ thr'[i].op = thr[i].op /\ thr'[i].main
          /\ thr'[i].pc \notin InAddFields
          /\ TName(thr[i]) \in DOMAIN mig.snap
          /\ <<thr[i].op, TName(thr[i])>> \notin mig'.failedTbl)
         => LET t    == TName(thr[i])
                was  == mig.snap[t]
            IN  \A k \in DOMAIN TCols(thr[i]) :
                  LET f == TCols(thr[i])[k]
                  IN  (f.old \in Range(was.cols) /\ f.name \notin Range(was.cols))
                      => /\ f.name \in Range(db'[t].cols)
                         /\ f.old \notin Range(db'[t].cols) \/ \E j \in DOMAIN TCols(thr[i]) :
                                                                 TCols(thr[i])[j].name = f.old
                         /\ ColumnOf(db'[t], f.name) = ColumnOf(was, f.old)]_vars

\* The rename loop of addFields takes the declared columns in order, each
\* rename acting on the table the renames before it left (database.ts
\* 638-642).  Column k of decl keeps what its own rename gave it when no
\* column declared before it has the same previous name (which would take
\* the physical column first) and no column declared after it names it as
\* its previous name (which would rename it on).
KeepsRename(decl, k) ==
    /\ \A j \in 1..(k - 1) : decl[j].old # decl[k].old
    /\ \A j \in (k + 1)..Len(decl) : decl[j].old # decl[k].name

\* C31, amended: when createTable returns to open() from an existing table
\* with no engine failure on that table, every declared column whose
\* previous name was a physical column when open() began, and whose own name
\* was not, holds the values of that previous column row by row, and the
\* previous name is gone unless it is declared, provided that no column
\* declared before it has the same previous name and no column declared
\* after it names it as its previous name.
C31_RenameInDeclaredOrder ==
    [][\A i \in DOMAIN thr :
         (/\ thr[i].main /\ thr[i].pc \in InAddFields
          /\ i \in DOMAIN thr' /\ thr'[i].op = thr[i].op /\ thr'[i].main
          /\ thr'[i].pc \notin InAddFields
          /\ TName(thr[i]) \in DOMAIN mig.snap
          /\ <<thr[i].op, TName(thr[i])>> \notin mig'.failedTbl)
         => LET t    == TName(thr[i])
                decl == TCols(thr[i])
                was  == mig.snap[t]
            IN  \A k \in DOMAIN decl :
                  (/\ decl[k].old \in Range(was.cols)
                   /\ decl[k].name \notin Range(was.cols)
                   /\ KeepsRename(decl, k))
                  => /\ decl[k].name \in Range(db'[t].cols)
                     /\ \/ decl[k].old \notin Range(db'[t].cols)
                        \/ decl[k].old \in Range(ColNames(decl))
                     /\ ColumnOf(db'[t], decl[k].name) = ColumnOf(was, decl[k].old)]_vars

\* A first open() with delete_unused has returned 200 on a declared table
\* with rows, two of whose declared columns name a previous name; the table
\* held the previous name of one of them and not its new name, no other
\* declared column stands in the way of that rename, and the column now
\* carries the new name and the old values.
C31_RenamedWithRows ==
    /\ delete_unused
    /\ Cardinality(Opens) = 1
    /\ \E i \in DOMAIN thr : thr[i].main /\ thr[i].pc = "done" /\ thr[i].res = 200
    /\ \E k \in DOMAIN tables : \E j \in DOMAIN tables[k].cols :
         LET t == tables[k].name
             f == tables[k].cols[j]
         IN  /\ t \in DOMAIN mig.snap /\ Exists(t)
             /\ mig.snap[t].rows # <<>>
             /\ \E n \in DOMAIN tables[k].cols : n # j /\ tables[k].cols[n].old # NoName
             /\ KeepsRename(tables[k].cols, j)
             /\ f.old \in Range(mig.snap[t].cols)
             /\ f.name \notin Range(mig.snap[t].cols)
             /\ f.name \in Range(db[t].cols)
             /\ ColumnOf(db[t], f.name) = ColumnOf(mig.snap[t], f.old)

\* C32: when createTable returns to open() from an existing table with no
\* engine failure on that table, every declared column with a default that
\* the table lacked when open() began (under its name and its previous name)
\* holds the default in every row the table had, and every column that is
\* still there and is no declared column's previous name holds the values
\* it held.
C32_AddedColumnHoldsDefault ==
    [][\A i \in DOMAIN thr :
         (/\ thr[i].main /\ thr[i].pc \in InAddFields
          /\ i \in DOMAIN thr' /\ thr'[i].op = thr[i].op /\ thr'[i].main
          /\ thr'[i].pc \notin InAddFields
          /\ TName(thr[i]) \in DOMAIN mig.snap
          /\ <<thr[i].op, TName(thr[i])>> \notin mig'.failedTbl)
         => LET t    == TName(thr[i])
                was  == mig.snap[t]
                olds == {TCols(thr[i])[k].old : k \in DOMAIN TCols(thr[i])}
            IN  /\ Len(db'[t].rows) = Len(was.rows)
                /\ \A k \in DOMAIN TCols(thr[i]) :
                     LET f == TCols(thr[i])[k]
                     IN  (f.dflt # NULL /\ f.name \notin Range(was.cols)
                            /\ f.old \notin Range(was.cols))
                         => /\ f.name \in Range(db'[t].cols)
                            /\ \A r \in DOMAIN db'[t].rows :
                                 ColumnOf(db'[t], f.name)[r] = f.dflt
                /\ \A c \in (Range(was.cols) \cap Range(db'[t].cols)) \ olds :
                     ColumnOf(db'[t], c) = ColumnOf(was, c)]_vars

\* A first open() has returned 200 on a declared table with rows that
\* lacked a declared column with a default; the column is there now and
\* holds the default in a row.
C32_DefaultApplied ==
    /\ Cardinality(Opens) = 1
    /\ \E i \in DOMAIN thr : thr[i].main /\ thr[i].pc = "done" /\ thr[i].res = 200
    /\ \E k \in DOMAIN tables : \E j \in DOMAIN tables[k].cols :
         LET t == tables[k].name
             f == tables[k].cols[j]
         IN  /\ t \in DOMAIN mig.snap /\ Exists(t)
             /\ mig.snap[t].rows # <<>>
             /\ f.dflt # NULL
             /\ f.name \notin Range(mig.snap[t].cols)
             /\ f.old \notin Range(mig.snap[t].cols)
             /\ f.name \in Range(db[t].cols)
             /\ db[t].rows # <<>>
             /\ ColumnOf(db[t], f.name)[1] = f.dflt

\* C33: a rename reports 404 only for a source that does not exist, 409
\* only for a target that exists and with no engine call failed, and 500
\* whenever one of its engine calls failed.
C33_RenameCodes ==
    LET r == mig.rn
    IN  /\ r.code = 404 => ~r.src
        /\ r.code = 409 => (r.src /\ r.dst)
        /\ r.err => r.code = 500

\* C34: once the latest open() has returned 200 and nothing of it is still
\* running, with delete_unused every table of the file is declared, and
\* without it every table the file held when open() began is still there.
C34_PruneTables ==
    (/\ thr # <<>>
     /\ \A i \in DOMAIN thr : Settled(thr[i])
     /\ \E i \in DOMAIN thr :
          thr[i].main /\ thr[i].op = Cardinality(Opens) /\ thr[i].pc = "done" /\ thr[i].res = 200)
    => /\ delete_unused => \A t \in DOMAIN db : Declared(t)
       /\ ~delete_unused => DOMAIN mig.snap \subseteq DOMAIN db

\* C35: when reorderFields returns from the creation of the temporary table
\* or from the row copy, the original table is there under its name with
\* the columns and the rows it had when reorderFields read it.
C35_FailedReorderKeepsTable ==
    [][\A i \in DOMAIN thr :
         (/\ thr[i].main /\ thr[i].pc \in {"rf_texists", "rf_tcreate", "rf_copy"}
          /\ i \in DOMAIN thr' /\ thr'[i].op = thr[i].op /\ thr'[i].main
          /\ thr'[i].pc \in {"ct_exists", "o_tables"})
         => /\ TName(thr[i]) \in DOMAIN db'
            /\ db'[TName(thr[i])].cols = mig.before.cols
            /\ BagOf(RowMaps(db'[TName(thr[i])])) = mig.before.rows]_vars

\* The column updates keyed by the primary key.
KeyedUpdate(c) ==
    /\ c.op \in {"setValue", "column.setValue", "updateValues"}
    /\ HasKey(c.tbl) /\ c.col = KeyName(c.tbl)

\* C36: a column update keyed by the primary key that the engine served
\* returns 200, status true, changes 1 on a key held by one row, and the
\* table differs from the one before in that cell only; on a key no row
\* holds it returns changes 0, status false and the table is the same; a
\* find of the key that returns next shows the value written.
C36_KeyedUpdate ==
    /\ LET c == obs.last
       IN  (KeyedUpdate(c) /\ ~c.err)
           => LET cols == c.pre[c.tbl].cols
                  hit  == {r \in DOMAIN c.pre[c.tbl].rows :
                             c.pre[c.tbl].rows[r][Index(cols, c.col)] = c.key}
                  name == Schema(c.tbl)[CHOOSE u \in c.upd : TRUE].name
              IN  /\ Cardinality(hit) = 1
                    => /\ c.res = 200 /\ c.status /\ c.changes = 1
                       /\ c.post[c.tbl].cols = cols
                       /\ c.post[c.tbl].rows =
                            [r \in DOMAIN c.pre[c.tbl].rows |->
                               IF r \in hit
                               THEN [c.pre[c.tbl].rows[r] EXCEPT ![Index(cols, name)] = c.args[1]]
                               ELSE c.pre[c.tbl].rows[r]]
                  /\ hit = {} => (c.changes = 0 /\ ~c.status /\ c.post = c.pre)
    /\ LET f == obs.last
           c == obs.prev
       IN  (/\ f.op = "find" /\ ~f.err /\ KeyedUpdate(c) /\ ~c.err
            /\ f.tbl = c.tbl /\ f.key = c.key /\ c.status)
           => /\ f.status
              /\ f.got[Schema(c.tbl)[CHOOSE u \in c.upd : TRUE].name] = c.args[1]

\* A keyed update has changed one row of a table with two rows, and the
\* find of that key that returned next shows the value written.
C36_UpdatedThenFound ==
    /\ obs.last.op = "find" /\ obs.last.status
    /\ KeyedUpdate(obs.prev) /\ obs.prev.changes = 1
    /\ obs.last.key = obs.prev.key
    /\ Len(obs.prev.pre[obs.prev.tbl].rows) = 2
    /\ obs.prev.post # obs.prev.pre

\* C37: a vacuum(), commit() or rollback() whose statement the engine
\* rejected has resolved with code 500 and has passed its own name to the
\* error callback.
C37_ErrorTagNamesOperation ==
    \A i \in DOMAIN calls :
        (/\ calls[i].kind \in {"vacuum", "commit", "rollback"}
         /\ calls[i].pc = "done" /\ calls[i].res = 500)
        => calls[i].tag = calls[i].kind

\* The non-key columns in which the instance of save x differed, when it
\* saved, from the row it was loaded from.
Differs(x) ==
    {c \in DOMAIN x.args :
        ~Schema(x.tbl)[c].pkey /\ x.args[c] # inst[x.i].born[c]}

\* The last two operations returned are saves of two instances of one key
\* that changed different columns, and the engine has rejected nothing.
TwoSavesApart ==
    /\ obs.prev.op = "save" /\ obs.last.op = "save"
    /\ obs.prev.i # obs.last.i
    /\ obs.prev.tbl = obs.last.tbl /\ obs.prev.key = obs.last.key
    /\ Differs(obs.prev) # {} /\ Differs(obs.last) # {}
    /\ Differs(obs.prev) \cap Differs(obs.last) = {}
    /\ errlog = {}

\* C38: after two instances loaded from one row have each changed another
\* non-key column and saved, in any interleaving, every row under the key
\* holds both changes.
C38_BothChangesKept ==
    TwoSavesApart
    => LET a == obs.prev
           b == obs.last
           tb == b.post[b.tbl]
       IN  \A r \in DOMAIN tb.rows :
             tb.rows[r][Index(tb.cols, KeyName(b.tbl))] = b.key
             => /\ \A c \in Differs(a) :
                     tb.rows[r][Index(tb.cols, Schema(b.tbl)[c].name)] = a.args[c]
                /\ \A c \in Differs(b) :
                     tb.rows[r][Index(tb.cols, Schema(b.tbl)[c].name)] = b.args[c]

\* Two such saves overlapped: the second was called while the first was in
\* flight, and both reported success.
C38_OverlappingSaves ==
    /\ TwoSavesApart
    /\ ~obs.prev.alone /\ ~obs.last.alone
    /\ obs.prev.status /\ obs.last.status
    /\ obs.prev.wrote # {} /\ obs.last.wrote # {}

\* C39: in the HTTP layer at most one prepareItem run is in progress at any
\* time: under any interleaving of /prepare and /download requests, no two
\* requests are inside prepareItem together (a request that arrives while an
\* item is being prepared is answered 503 and starts no second run).
C39_OnePrepareAtATime == Cardinality(Preparing) <= 1

====
